---- MODULE Spec2Model ----
\* Memory subsystem of the rsm virtual machine runtime:
\*   - the buddy page allocator (PMM): src/src/mem_mm.c
\*   - the page directory and the translation cache: src/src/vm.c
\*
\* Addresses are host byte addresses.  MAX_ORDER is 20 in the source; the
\* model runs the same code with a small MAX_ORDER so that regions longer
\* than 2^MAX_ORDER pages (several top-order blocks) are explored.
EXTENDS Integers, Sequences, FiniteSets, TLC

\* ------------------------------------------------------------------------
\* bounds of the model
\* ------------------------------------------------------------------------

\* scaled stand-in for "#define MAX_ORDER 20"
MAX_ORDER == 2

\* largest usable span, in pages, that rmm_create is run over
MaxPages == 9

\* largest *req_npages handed to rmm_allocpages_min
MaxReq == 5

\* largest usable span, in pages, of the runs through rmm_allocpages_min
MaxMinPages == 6

\* usable span, in pages, of the PMM that backs the page directory
VMPages == 6

\* width in bits of the machine word that stands for u64 / uintptr
WordBits == 24

\* scaled stand-ins for the vm.h constants VM_PTAB_BITS (index bits per
\* page-table level), VM_PTAB_LEVELS and log2(VM_CACHE_LEN)
VM_PTAB_BITS == 2
VM_PTAB_LEVELS == 2
CacheIndexBits == 1

\* number of distinct byte values that are stored
NVals == 2

\* ------------------------------------------------------------------------
\* program constants
\* ------------------------------------------------------------------------

PAGE_SIZE_BITS == 12
PAGE_SIZE == 4096

\* sizeof(vm_pte_t)
PTE_SIZE == 8

\* UINTPTR_MAX, the failure value of rmm_allocpages1 (never a valid offset)
UINTPTR_MAX == -1

\* ------------------------------------------------------------------------
\* integer helpers (rsmimpl.h macros)
\* ------------------------------------------------------------------------

RECURSIVE Pow2(_)
Pow2(n) == IF n = 0 THEN 1 ELSE 2 * Pow2(n - 1)

RECURSIVE BitXor(_, _)
BitXor(a, b) ==
  IF a = 0 THEN b
  ELSE IF b = 0 THEN a
  ELSE ((a + b) % 2) + 2 * BitXor(a \div 2, b \div 2)

RECURSIVE BitAnd(_, _)
BitAnd(a, b) ==
  IF a = 0 \/ b = 0 THEN 0
  ELSE ((a % 2) * (b % 2)) + 2 * BitAnd(a \div 2, b \div 2)

\* IS_POW2(x): ((x) & ((x) - 1)) == 0   (true of 0 as well)
IS_POW2(x) == x = 0 \/ BitAnd(x, x - 1) = 0

\* IS_ALIGN2(x, a): !((x) & (a - 1))
IS_ALIGN2(x, a) == BitAnd(x, a - 1) = 0

\* ALIGN2(x, a): (x + (a-1)) & ~(a-1), a a power of two
ALIGN2(x, a) == (x + (a - 1)) - ((x + (a - 1)) % a)

\* ALIGN2_FLOOR(x, a):  ((x - (atmp - 1)) + atmp) & ~atmp  with atmp = a - 1
ALIGN2_FLOOR(x, a) ==
  LET atmp == a - 1
      y == (x - (atmp - 1)) + atmp
  IN y - (y % a)

\* FLOOR_POW2(x): rounds x down to the nearest power of two; 1 when x is 0
RECURSIVE FLOOR_POW2(_)
FLOOR_POW2(x) == IF x <= 1 THEN 1 ELSE 2 * FLOOR_POW2(x \div 2)

\* CEIL_POW2(x): rounds x up to the nearest power of two; 1 when x is 0
CEIL_POW2(x) == IF x <= 1 THEN 1 ELSE 2 * FLOOR_POW2(x - 1)

MIN(a, b) == IF a < b THEN a ELSE b

Range(s) == {s[i] : i \in DOMAIN s}

\* ------------------------------------------------------------------------
\* intrusive list (list.h) and bitset (bits.h) primitives:
\* a list is the sequence of its entries, head first
\* ------------------------------------------------------------------------

ilist_append(list, entry) == Append(list, entry)

\* the entry ilist_pop returns, 0 (NULL) when the list is empty
ilist_first(list) == IF list = <<>> THEN 0 ELSE Head(list)

\* the list after ilist_pop
ilist_pop(list) == IF list = <<>> THEN list ELSE Tail(list)

\* ilist_del unlinks the entry from whichever list holds it
ilist_del(lists, entry) ==
  [k \in DOMAIN lists |-> SelectSeq(lists[k], LAMBDA e : e # entry)]

bit_get(bset, bit) == bit \in bset
bit_set(bset, bit) == bset \cup {bit}
bit_clear(bset, bit) == bset \ {bit}

\* ------------------------------------------------------------------------
\* state
\* ------------------------------------------------------------------------

VARIABLES
  start_addr,   \* rmm_t.start_addr
  end_addr,     \* rmm_t.end_addr
  free_size,    \* rmm_t.free_size
  bitsets,      \* rmm_t.bitsets[order]   : set of bit indices that are 1
  freelists,    \* rmm_t.freelists[order] : sequence of block addresses
  fault,        \* an assert of the PMM code failed / a stale list node was unlinked
  live,         \* blocks returned by rmm_allocpages and not yet freed
  seed,         \* the free lists as rmm_create left them
  last,         \* the last PMM call and what it returned
  pd_root,      \* vm_pagedir_t.root : host address of the root page table
  hmem,         \* host memory: PTEs and guest data, by host address (absent = 0)
  cache,        \* vm_cache_t.entries
  vm_state,     \* "run", or "panic" once the VM code has called panic()
  shadow,       \* the byte last stored to each guest address
  vm_last,      \* the last load / store and what it returned
  ka,           \* rmemalloc_t: the sub-heap, the slab heaps and the heap memory
  klive,        \* regions returned by kmem_alloc_aligned and not yet freed
  klast,        \* the last allocator call and what it returned
  krun,         \* the run of slab allocations and frees in progress
  mutex,        \* the owner of rmm_t.lock, vm_pagedir_t.lock and rmemalloc_t.lock
  thread        \* per thread: the call it is in and its position in it

pmm_vars == <<start_addr, end_addr, free_size, bitsets, freelists, fault>>
vm_vars == <<pd_root, hmem, cache, vm_state, shadow, vm_last>>
kmem_vars == <<ka, klive, klast, krun>>
thr_vars == <<mutex, thread>>
vars == <<start_addr, end_addr, free_size, bitsets, freelists, fault, live, seed, last,
          pd_root, hmem, cache, vm_state, shadow, vm_last, ka, klive, klast, krun,
          mutex, thread>>

\* threads that call into the PMM, the page directory and the allocator
NThreads == 2

Threads == 1 .. NThreads

\* a thread that is in no call
ThreadIdle ==
  [pc |-> "idle", fn |-> "none", arg |-> 0, mmcall |-> "none", ret |-> "none",
   r |-> 0, walk |-> 0]

\* no allocator has been created; no mutex is held, no thread is in a call
KmemIdle ==
  /\ mutex = [m \in {"mm", "pd", "kha"} |-> 0]
  /\ thread = [t \in Threads |-> ThreadIdle]
  /\ ka = <<>>
  /\ klive = {}
  /\ klast = [op |-> "none"]
  /\ krun = [phase |-> "none"]

Orders == 0 .. MAX_ORDER

\* host pointers handed to rmm_create: one with a large alignment, one odd
MemPtrs == {16 * PAGE_SIZE, 16 * PAGE_SIZE + 1}

\* ------------------------------------------------------------------------
\* rmm_create: seeding of the free lists
\* ------------------------------------------------------------------------

\* order of a power-of-two page count:  for (n = npages; n; n >>= 1) order++
RECURSIVE OrderOf(_)
OrderOf(npages) == IF npages <= 1 THEN 0 ELSE 1 + OrderOf(npages \div 2)

\* the seeding loop with start advanced by one page only
RECURSIVE rmm_create_seed_onepage(_, _, _, _)
rmm_create_seed_onepage(st, base, start, npages_total) ==
  IF npages_total = 0 THEN st
  ELSE
    LET npages == MIN(FLOOR_POW2(npages_total), Pow2(MAX_ORDER))
        order == OrderOf(npages)
        block_size == PAGE_SIZE * Pow2(order)
        bit == (start - base) \div block_size
        fl1 == [st.fl EXCEPT ![order] = ilist_append(@, start)]
        bs1 == [st.bs EXCEPT ![order] = bit_set(bit_clear(@, bit), bit + 1)]
    IN rmm_create_seed_onepage([fl |-> fl1, bs |-> bs1], base, start + PAGE_SIZE,
                               npages_total - npages)

\* the while (npages_total) loop of rmm_create
\* st = [fl, bs] ; start is the running start pointer
RECURSIVE rmm_create_seed(_, _, _, _)
rmm_create_seed(st, base, start, npages_total) ==
  IF npages_total = 0 THEN st
  ELSE
    LET npages == MIN(FLOOR_POW2(npages_total), Pow2(MAX_ORDER))
        order == OrderOf(npages)
        block_size == PAGE_SIZE * Pow2(order)
        bit == (start - base) \div block_size
        fl1 == [st.fl EXCEPT ![order] = ilist_append(@, start)]
        bs1 == [st.bs EXCEPT ![order] = bit_set(bit_clear(@, bit), bit + 1)]
    IN rmm_create_seed([fl |-> fl1, bs |-> bs1], base, start + block_size,
                       npages_total - npages)

\* rmm_create(memp, ..) with a usable span of npages_total pages
rmm_create(memp, npages_total) ==
  LET start == ALIGN2(memp, PAGE_SIZE)
      memsize == npages_total * PAGE_SIZE
      empty == [fl |-> [k \in Orders |-> <<>>], bs |-> [k \in Orders |-> {}]]
      st == rmm_create_seed(empty, start, start, npages_total)
  IN [start_addr |-> start, end_addr |-> start + memsize, free_size |-> memsize,
      freelists |-> st.fl, bitsets |-> st.bs, fault |-> FALSE]

\* sizeof(rmm_t): lock, start_addr, end_addr, free_size, and a bitset pointer
\* and a list head per order
sizeof_rmm_t == 40 + (MAX_ORDER + 1) * 24

\* _Alignof(rmm_t)
alignof_rmm_t == 8

\* rmm_create(memp, memsize) over the host region [memp, memp + memsize)
\* result: ok is FALSE when NULL is returned; mm
rmm_create_region(memp, memsize) ==
  LET start == ALIGN2(memp, PAGE_SIZE)
      end == memp + memsize
      mmp == ALIGN2_FLOOR(end - sizeof_rmm_t, alignof_rmm_t)
      memsize1 == mmp - start
      nchunks == memsize1 \div PAGE_SIZE
      bset_nbytes == nchunks \div 8
      BITSET_SIZE(order) == (bset_nbytes \div Pow2(order)) + 2
      RECURSIVE total(_)
      total(order) == IF order > MAX_ORDER THEN 0
                      ELSE BITSET_SIZE(order) + total(order + 1)
      bset_total_size == total(0)
      memsize2 == ALIGN2_FLOOR(memsize1 - (bset_total_size + PAGE_SIZE), PAGE_SIZE)
      none == [start_addr |-> 0, end_addr |-> 0, free_size |-> 0,
               freelists |-> [k \in Orders |-> <<>>],
               bitsets |-> [k \in Orders |-> {}], fault |-> FALSE]
  IN IF mmp < start THEN [ok |-> FALSE, mm |-> none]
     ELSE IF memsize1 < bset_total_size + PAGE_SIZE THEN [ok |-> FALSE, mm |-> none]
     ELSE IF memsize2 = 0 THEN [ok |-> FALSE, mm |-> none]
     ELSE [ok |-> TRUE, mm |-> rmm_create(memp, memsize2 \div PAGE_SIZE)]

\* ------------------------------------------------------------------------
\* rmm_allocpages
\* ------------------------------------------------------------------------

\* rmm_allocpages1 with the order test off by one (order >= MAX_ORDER)
RECURSIVE rmm_allocpages1_offbyone(_, _, _, _)
rmm_allocpages1_offbyone(base, fl, bs, order) ==
  LET size == PAGE_SIZE * Pow2(order) IN
  IF order >= MAX_ORDER
  THEN [addr |-> UINTPTR_MAX, fl |-> fl, bs |-> bs, ok |-> TRUE]
  ELSE IF ilist_first(fl[order]) # 0
  THEN LET addr == ilist_first(fl[order]) - base
           bit == addr \div size
       IN [addr |-> addr,
           fl |-> [fl EXCEPT ![order] = ilist_pop(@)],
           bs |-> [bs EXCEPT ![order] = bit_set(@, bit)],
           ok |-> ~bit_get(bs[order], bit)]
  ELSE LET r == rmm_allocpages1_offbyone(base, fl, bs, order + 1) IN
       IF r.addr = UINTPTR_MAX
       THEN [addr |-> UINTPTR_MAX, fl |-> fl, bs |-> bs, ok |-> TRUE]
       ELSE LET buddy2 == (r.addr + base) + size
                bit == r.addr \div size
            IN [addr |-> r.addr,
                fl |-> [r.fl EXCEPT ![order] = ilist_append(@, buddy2)],
                bs |-> [r.bs EXCEPT ![order] = bit_set(@, bit)],
                ok |-> r.ok /\ ~bit_get(r.bs[order], bit)]

\* result: addr is the offset from start_addr or UINTPTR_MAX; ok is FALSE
\* when assert(!bit_get(..)) fails
RECURSIVE rmm_allocpages1(_, _, _, _)
rmm_allocpages1(base, fl, bs, order) ==
  LET size == PAGE_SIZE * Pow2(order) IN
  IF order > MAX_ORDER
  THEN [addr |-> UINTPTR_MAX, fl |-> fl, bs |-> bs, ok |-> TRUE]
  ELSE IF ilist_first(fl[order]) # 0
  THEN LET addr == ilist_first(fl[order]) - base
           bit == addr \div size
       IN [addr |-> addr,
           fl |-> [fl EXCEPT ![order] = ilist_pop(@)],
           bs |-> [bs EXCEPT ![order] = bit_set(@, bit)],
           ok |-> ~bit_get(bs[order], bit)]
  ELSE LET r == rmm_allocpages1(base, fl, bs, order + 1) IN
       IF r.addr = UINTPTR_MAX
       THEN [addr |-> UINTPTR_MAX, fl |-> fl, bs |-> bs, ok |-> TRUE]
       ELSE LET buddy2 == (r.addr + base) + size
                bit == r.addr \div size
            IN [addr |-> r.addr,
                fl |-> [r.fl EXCEPT ![order] = ilist_append(@, buddy2)],
                bs |-> [r.bs EXCEPT ![order] = bit_set(@, bit)],
                ok |-> r.ok /\ ~bit_get(r.bs[order], bit)]

\* rmm_allocpages(mm, npages), npages = 0 or a power of two
\* result: ptr is the returned pointer (0 is NULL)
rmm_allocpages(mm, npages) ==
  IF npages = 0
  THEN [ptr |-> 0, mm |-> mm]
  ELSE
    LET order == OrderOf(npages)
        \* the statements after  addr = rmm_allocpages1(mm, order)
        after(r) ==
          IF r.addr = UINTPTR_MAX
          THEN [ptr |-> 0, mm |-> mm]
          ELSE [ptr |-> r.addr + mm.start_addr,
                mm |-> [mm EXCEPT !.freelists = r.fl, !.bitsets = r.bs,
                                  !.free_size = @ - npages * PAGE_SIZE,
                                  !.fault = @ \/ ~r.ok]]
    IN after(rmm_allocpages1(mm.start_addr, mm.freelists, mm.bitsets, order))

\* the loop of rmm_allocpages_min with the exit test ahead of the attempt
RECURSIVE rmm_allocpages_min_loop_exitfirst(_, _, _, _)
rmm_allocpages_min_loop_exitfirst(mm, req, npages, min_npages) ==
  IF npages = min_npages THEN [ptr |-> 0, req |-> req, mm |-> mm]
  ELSE LET r == rmm_allocpages(mm, npages) IN
       IF r.ptr # 0 THEN [ptr |-> r.ptr, req |-> npages, mm |-> r.mm]
       ELSE rmm_allocpages_min_loop_exitfirst(r.mm, req, npages \div 2, min_npages)

\* rmm_allocpages_min(mm, &req_npages, min_npages): the for (;;) loop
\* result: ptr, req (the value of *req_npages afterwards), mm
RECURSIVE rmm_allocpages_min_loop(_, _, _, _)
rmm_allocpages_min_loop(mm, req, npages, min_npages) ==
  LET r == rmm_allocpages(mm, npages) IN
  IF r.ptr # 0 THEN [ptr |-> r.ptr, req |-> npages, mm |-> r.mm]
  ELSE IF npages = min_npages THEN [ptr |-> 0, req |-> req, mm |-> r.mm]
  ELSE rmm_allocpages_min_loop(r.mm, req, npages \div 2, min_npages)

rmm_allocpages_min(mm, req_npages, min_npages) ==
  rmm_allocpages_min_loop(mm, req_npages, CEIL_POW2(req_npages),
                          IF min_npages = 0 THEN 1 ELSE min_npages)

\* ------------------------------------------------------------------------
\* rmm_freepages
\* ------------------------------------------------------------------------

\* rmm_freepages1 that leaves the use bit set when the block is not merged
RECURSIVE rmm_freepages1_keepbit(_, _, _, _, _)
rmm_freepages1_keepbit(base, fl, bs, addr, order) ==
  IF order > MAX_ORDER
  THEN [order |-> -1, fl |-> fl, bs |-> bs, ok |-> TRUE]
  ELSE
    LET size == PAGE_SIZE * Pow2(order)
        bit == addr \div size
    IN IF ~bit_get(bs[order], bit)
       THEN rmm_freepages1_keepbit(base, fl, bs, addr, order + 1)
       ELSE
         LET buddy_addr == BitXor(addr, size)
             buddy_bit == buddy_addr \div size
             bs1 == [bs EXCEPT ![order] = bit_clear(@, bit)]
         IN IF ~bit_get(bs1[order], buddy_bit)
            THEN LET buddy == buddy_addr + base
                     fl1 == ilist_del(fl, buddy)
                     r == rmm_freepages1_keepbit(base, fl1, bs1,
                                         IF buddy_addr > addr THEN addr ELSE buddy_addr,
                                         order + 1)
                 IN [order |-> order, fl |-> r.fl, bs |-> r.bs,
                     ok |-> r.ok /\ (\E k \in Orders : buddy \in Range(fl[k]))]
            ELSE [order |-> order,
                  fl |-> [fl EXCEPT ![order] = ilist_append(@, addr + base)],
                  bs |-> bs, ok |-> TRUE]

\* result: order is the deduced order or -1; ok is FALSE when the buddy that
\* is unlinked is on no free list (the asserts on buddy->next / buddy->prev)
RECURSIVE rmm_freepages1(_, _, _, _, _)
rmm_freepages1(base, fl, bs, addr, order) ==
  IF order > MAX_ORDER
  THEN [order |-> -1, fl |-> fl, bs |-> bs, ok |-> TRUE]
  ELSE
    LET size == PAGE_SIZE * Pow2(order)
        bit == addr \div size
    IN IF ~bit_get(bs[order], bit)
       THEN rmm_freepages1(base, fl, bs, addr, order + 1)
       ELSE
         LET buddy_addr == BitXor(addr, size)
             buddy_bit == buddy_addr \div size
             bs1 == [bs EXCEPT ![order] = bit_clear(@, bit)]
         IN IF ~bit_get(bs1[order], buddy_bit)
            THEN LET buddy == buddy_addr + base
                     fl1 == ilist_del(fl, buddy)
                     r == rmm_freepages1(base, fl1, bs1,
                                         IF buddy_addr > addr THEN addr ELSE buddy_addr,
                                         order + 1)
                 IN [order |-> order, fl |-> r.fl, bs |-> r.bs,
                     ok |-> r.ok /\ (\E k \in Orders : buddy \in Range(fl[k]))]
            ELSE [order |-> order,
                  fl |-> [fl EXCEPT ![order] = ilist_append(@, addr + base)],
                  bs |-> bs1, ok |-> TRUE]

\* rmm_freepages that credits a single page whatever the deduced order
rmm_freepages_onepage(mm, ptr) ==
  LET after(r) ==
        [order |-> r.order,
         mm |-> [mm EXCEPT !.freelists = r.fl, !.bitsets = r.bs,
                           !.free_size = IF r.order >= 0 THEN @ + PAGE_SIZE ELSE @,
                           !.fault = @ \/ ~r.ok]]
  IN after(rmm_freepages1(mm.start_addr, mm.freelists, mm.bitsets,
                          ptr - mm.start_addr, 0))

\* rmm_freepages(mm, ptr); result: order, mm
rmm_freepages(mm, ptr) ==
  LET \* the statements after  order = rmm_freepages1(mm, ptr - start_addr, 0)
      after(r) ==
        [order |-> r.order,
         mm |-> [mm EXCEPT !.freelists = r.fl, !.bitsets = r.bs,
                           !.free_size = IF r.order >= 0
                                         THEN @ + PAGE_SIZE * Pow2(r.order) ELSE @,
                           !.fault = @ \/ ~r.ok]]
  IN after(rmm_freepages1(mm.start_addr, mm.freelists, mm.bitsets,
                          ptr - mm.start_addr, 0))

\* rmm_avail_total(mm): free pages
rmm_avail_total(mm) == mm.free_size \div PAGE_SIZE

\* rmm_cap(mm)
rmm_cap(mm) == (mm.end_addr - mm.start_addr) \div PAGE_SIZE

\* ------------------------------------------------------------------------
\* the PMM as a state machine
\* ------------------------------------------------------------------------

\* the rmm_t of the current state
MM == [start_addr |-> start_addr, end_addr |-> end_addr, free_size |-> free_size,
       freelists |-> freelists, bitsets |-> bitsets, fault |-> fault]

SetMM(mm) ==
  /\ start_addr' = mm.start_addr
  /\ end_addr' = mm.end_addr
  /\ free_size' = mm.free_size
  /\ freelists' = mm.freelists
  /\ bitsets' = mm.bitsets
  /\ fault' = mm.fault

NoCall == [op |-> "create", n |-> 0, min |-> 0, ptr |-> 0, out |-> 0, order |-> 0]

Init ==
  \E memp \in MemPtrs, npages_total \in 1 .. MaxPages :
    LET mm == rmm_create(memp, npages_total) IN
    /\ start_addr = mm.start_addr
    /\ end_addr = mm.end_addr
    /\ free_size = mm.free_size
    /\ freelists = mm.freelists
    /\ bitsets = mm.bitsets
    /\ fault = FALSE
    /\ live = {}
    /\ seed = mm.freelists
    /\ last = NoCall
    /\ pd_root = 0
    /\ hmem = <<>>
    /\ cache = <<>>
    /\ vm_state = "run"
    /\ shadow = <<>>
    /\ vm_last = [op |-> "none"]
    /\ KmemIdle

\* page counts passed to rmm_allocpages: 0, and the powers of two up to one
\* order above MAX_ORDER
AllocSizes == {0} \cup {Pow2(k) : k \in 0 .. MAX_ORDER + 1}

AllocPages(npages) ==
  /\ ~fault
  /\ \E r \in {rmm_allocpages(MM, npages)} :
     /\ SetMM(r.mm)
     /\ live' = IF r.ptr = 0 THEN live
                ELSE live \cup {[addr |-> r.ptr, npages |-> npages]}
     /\ last' = [op |-> "alloc", n |-> npages, min |-> 0, ptr |-> r.ptr,
                 out |-> 0, order |-> 0]
  /\ UNCHANGED <<thr_vars, kmem_vars, seed, vm_vars>>

AllocPagesMin(req, min) ==
  /\ ~fault
  /\ IS_POW2(min) /\ min <= CEIL_POW2(req)
  /\ \E r \in {rmm_allocpages_min(MM, req, min)} :
     /\ SetMM(r.mm)
     /\ live' = IF r.ptr = 0 THEN live
                ELSE live \cup {[addr |-> r.ptr, npages |-> r.req]}
     /\ last' = [op |-> "allocmin", n |-> req, min |-> min, ptr |-> r.ptr,
                 out |-> r.req, order |-> 0]
  /\ UNCHANGED <<thr_vars, kmem_vars, seed, vm_vars>>

FreePages(b) ==
  /\ ~fault
  /\ b \in live
  /\ \E r \in {rmm_freepages(MM, b.addr)} :
     /\ SetMM(r.mm)
     /\ live' = live \ {b}
     /\ last' = [op |-> "free", n |-> b.npages, min |-> 0, ptr |-> b.addr,
                 out |-> 0, order |-> r.order]
  /\ UNCHANGED <<thr_vars, kmem_vars, seed, vm_vars>>

Next ==
  \/ \E npages \in AllocSizes : AllocPages(npages)
  \/ \E b \in live : FreePages(b)

Spec == Init /\ [][Next]_vars

\* rmm_freepages(mm, ptr) called once more with the pointer of the free that
\* has just returned; last.n is the size the block had
FreeAgain ==
  /\ ~fault
  /\ last.op = "free"
  /\ \E r \in {rmm_freepages(MM, last.ptr)} :
     /\ SetMM(r.mm)
     /\ last' = [op |-> "free2", n |-> last.n, min |-> 0, ptr |-> last.ptr,
                 out |-> 0, order |-> r.order]
  /\ UNCHANGED <<live, thr_vars, kmem_vars, seed, vm_vars>>

\* the run ends with the second free
NextFreeAgain ==
  \/ last.op # "free2" /\ \E npages \in AllocSizes : AllocPages(npages)
  \/ last.op # "free2" /\ \E b \in live : FreePages(b)
  \/ FreeAgain

SpecFreeAgain == Init /\ [][NextFreeAgain]_vars

\* the same PMM driven through rmm_allocpages_min, over page-aligned host
\* regions with spans of at most MaxMinPages pages
InitMin ==
  /\ Init
  /\ start_addr = 16 * PAGE_SIZE
  /\ end_addr - start_addr <= MaxMinPages * PAGE_SIZE

NextMin ==
  \/ \E req \in 0 .. MaxReq, min \in 0 .. MaxReq : AllocPagesMin(req, min)
  \/ \E b \in live : FreePages(b)

SpecMin == InitMin /\ [][NextMin]_vars

\* rmm_allocpages_min one iteration of its for (;;) loop per step; last holds
\* the locals of the call: n is *req_npages, out what the call has stored to it
MinCall(req, min) ==
  /\ ~fault
  /\ last.op # "min_loop"
  /\ last' = [op |-> "min_loop", n |-> req, min |-> IF min = 0 THEN 1 ELSE min,
              npages |-> CEIL_POW2(req), ptr |-> 0, out |-> req, order |-> 0]
  /\ UNCHANGED <<pmm_vars, live, thr_vars, kmem_vars, seed, vm_vars>>

\* p = rmm_allocpages(mm, npages) and the statements after it
MinAttempt ==
  /\ ~fault
  /\ last.op = "min_loop"
  /\ \E r \in {rmm_allocpages(MM, last.npages)} :
       /\ SetMM(r.mm)
       /\ live' = IF r.ptr = 0 THEN live
                  ELSE live \cup {[addr |-> r.ptr, npages |-> last.npages]}
       /\ last' = IF r.ptr # 0
                  THEN [last EXCEPT !.op = "min_done", !.ptr = r.ptr,
                                    !.out = last.npages]
                  ELSE IF last.npages = last.min
                  THEN [last EXCEPT !.op = "min_done"]
                  ELSE [last EXCEPT !.npages = last.npages \div 2]
  /\ UNCHANGED <<thr_vars, kmem_vars, seed, vm_vars>>

\* rmm_freepages between the calls of rmm_allocpages_min
MinFree(b) == last.op # "min_loop" /\ FreePages(b)

NextMinLoop ==
  \/ \E req \in 0 .. MaxReq, min \in 0 .. MaxReq : MinCall(req, min)
  \/ MinAttempt
  \/ \E b \in live : MinFree(b)

\* a call that has been entered keeps running
SpecMinLoop == InitMin /\ [][NextMinLoop]_vars /\ WF_vars(MinAttempt)

\* rmm_create over host regions of SeedMaxPages pages at most, whole pages
\* and sizes that leave a remainder
SeedMaxPages == 18

SeedSizes == {k * PAGE_SIZE + d : k \in 0 .. SeedMaxPages, d \in {0, 1, 120, PAGE_SIZE - 1}}

\* no PMM yet; last holds the region that rmm_create will be given
InitSeed ==
  \E memp \in MemPtrs, memsize \in SeedSizes :
    /\ start_addr = 0
    /\ end_addr = 0
    /\ free_size = 0
    /\ freelists = [k \in Orders |-> <<>>]
    /\ bitsets = [k \in Orders |-> {}]
    /\ fault = FALSE
    /\ live = {}
    /\ seed = [k \in Orders |-> <<>>]
    /\ last = [op |-> "region", n |-> memsize, min |-> 0, ptr |-> memp,
               out |-> 0, order |-> 0]
    /\ pd_root = 0
    /\ hmem = <<>>
    /\ cache = <<>>
    /\ vm_state = "run"
    /\ shadow = <<>>
    /\ vm_last = [op |-> "none"]
    /\ KmemIdle

\* mm = rmm_create(memp, memsize); out is 1 when mm is not NULL
SeedCreate ==
  /\ last.op = "region"
  /\ \E c \in {rmm_create_region(last.ptr, last.n)} :
       /\ SetMM(c.mm)
       /\ seed' = c.mm.freelists
       /\ last' = [last EXCEPT !.op = "rmm_create", !.out = IF c.ok THEN 1 ELSE 0]
  /\ UNCHANGED <<thr_vars, kmem_vars, live, vm_vars>>

NextSeed == SeedCreate

SpecSeed == InitSeed /\ [][NextSeed]_vars

\* ------------------------------------------------------------------------
\* virtual memory: machine words and the vm.h constants
\* ------------------------------------------------------------------------

U64 == Pow2(WordBits)

\* arithmetic of the machine word
Wrap(x) == x % U64
ShiftR(x, n) == x \div Pow2(n)
ShiftL(x, n) == Wrap(x * Pow2(n))

VM_PTAB_LEN == Pow2(VM_PTAB_BITS)
VM_CACHE_LEN == Pow2(CacheIndexBits)
VM_ADDR_BITS == PAGE_SIZE_BITS + VM_PTAB_LEVELS * VM_PTAB_BITS
VFN_BITS == VM_ADDR_BITS - PAGE_SIZE_BITS
VM_ADDR_MIN == PAGE_SIZE
VM_ADDR_MAX == Pow2(VM_ADDR_BITS) - 1

\* ~(PAGE_SIZE - 1)
VM_ADDR_PAGE_MASK == U64 - PAGE_SIZE
VM_CACHE_INDEX_VFN_MASK == VM_CACHE_LEN - 1

VM_VFN(vaddr) == ShiftR(vaddr, PAGE_SIZE_BITS)
VM_PAGE_ADDR(vaddr) == BitAnd(vaddr, VM_ADDR_PAGE_MASK)
VM_ADDR_OFFSET(vaddr) == BitAnd(vaddr, PAGE_SIZE - 1)

\* page tables are zeroed when they are created (#ifdef VM_ZERO_PAGES)
VM_ZERO_PAGES == TRUE

\* getbits(x, p, n): (x >> (p+1-n)) & ~(~0 << n)
getbits(x, p, n) == BitAnd(ShiftR(x, p + 1 - n), Pow2(n) - 1)

\* host memory
MemRead(mem, a) == IF a \in DOMAIN mem THEN mem[a] ELSE 0
MemWrite(mem, a, v) ==
  [x \in DOMAIN mem \cup {a} |-> IF x = a THEN v ELSE mem[x]]

\* memset(p, 0, n)
MemZero(mem, p, n) ==
  [x \in {a \in DOMAIN mem : a < p \/ a >= p + n} |-> mem[x]]

\* size bytes starting at a
MemReadBytes(mem, a, size) == [i \in 1 .. size |-> MemRead(mem, a + i - 1)]

RECURSIVE MemWriteBytes(_, _, _)
MemWriteBytes(mem, a, bytes) ==
  IF bytes = <<>> THEN mem
  ELSE MemWriteBytes(MemWrite(mem, a, Head(bytes)), a + 1, Tail(bytes))

\* ------------------------------------------------------------------------
\* page directory
\* ------------------------------------------------------------------------

\* vm_ptab_create without the memset
vm_ptab_create_nozero(mm, mem) ==
  LET after(r) ==
        IF r.ptr = 0 THEN [ptab |-> 0, mm |-> r.mm, mem |-> mem]
        ELSE [ptab |-> r.ptr, mm |-> r.mm, mem |-> mem]
  IN after(rmm_allocpages(mm, 1))

\* vm_ptab_create(mm); result: ptab (0 is NULL), mm, mem
vm_ptab_create(mm, mem) ==
  LET after(r) ==
        IF r.ptr = 0 THEN [ptab |-> 0, mm |-> r.mm, mem |-> mem]
        ELSE [ptab |-> r.ptr, mm |-> r.mm,
              mem |-> IF VM_ZERO_PAGES THEN MemZero(mem, r.ptr, PAGE_SIZE) ELSE mem]
  IN after(rmm_allocpages(mm, 1))

\* vm_pagedir_create + vm_pagedir_init; result: root (0 on failure), mm, mem
\* mutex_ok is the result of RHMutexInit(&pagedir->lock)
vm_pagedir_create(mm, mem, mutex_ok) ==
  LET \* vm_pagedir_init, r the page of the pagedir, t the root table
      init(r, t) ==
        IF t.ptab = 0
        THEN [root |-> 0, mm |-> rmm_freepages(t.mm, r.ptr).mm, mem |-> mem]
        ELSE [root |-> t.ptab, mm |-> t.mm, mem |-> t.mem]
      after(r) ==
        IF r.ptr = 0 THEN [root |-> 0, mm |-> r.mm, mem |-> mem]
        ELSE IF ~mutex_ok
        THEN [root |-> 0, mm |-> rmm_freepages(r.mm, r.ptr).mm, mem |-> mem]
        ELSE init(r, vm_ptab_create(r.mm, mem))
  IN after(rmm_allocpages(mm, 1))

\* vm_pagedir_alloc_backing_page that returns the PTE without storing it
vm_pagedir_alloc_backing_page_nostore(mm, mem, pte_addr) ==
  LET after(r, hpage_addr) ==
        IF hpage_addr = 0
        THEN [pte |-> 0, mm |-> r.mm, mem |-> mem, panic |-> TRUE]
        ELSE [pte |-> hpage_addr, mm |-> r.mm, mem |-> mem, panic |-> FALSE]
      shifted(r) == after(r, ShiftR(r.ptr, PAGE_SIZE_BITS))
  IN shifted(rmm_allocpages(mm, 1))

\* vm_pagedir_alloc_backing_page that installs the page of the table that
\* holds the PTE instead of a page of the PMM
vm_pagedir_alloc_backing_page_selfref(mm, mem, pte_addr) ==
  [pte |-> ShiftR(pte_addr, PAGE_SIZE_BITS), mm |-> mm,
   mem |-> MemWrite(mem, pte_addr, ShiftR(pte_addr, PAGE_SIZE_BITS)), panic |-> FALSE]

\* vm_pagedir_alloc_backing_page(pagedir, pte), pte_addr the address of *pte
\* result: pte, mm, mem, panic
vm_pagedir_alloc_backing_page(mm, mem, pte_addr) ==
  LET after(r, hpage_addr) ==
        IF hpage_addr = 0
        THEN [pte |-> 0, mm |-> r.mm, mem |-> mem, panic |-> TRUE]
        ELSE [pte |-> hpage_addr, mm |-> r.mm,
              mem |-> MemWrite(mem, pte_addr, hpage_addr), panic |-> FALSE]
      shifted(r) == after(r, ShiftR(r.ptr, PAGE_SIZE_BITS))
  IN shifted(rmm_allocpages(mm, 1))

\* the for (;;) loop of vm_pagedir_lookup_pte
RECURSIVE vm_pagedir_lookup_loop(_, _, _, _, _, _)
vm_pagedir_lookup_loop(mm, mem, ptab, masked_vfn, bits, level) ==
  LET \* one iteration, pte_addr the address of ptab[index], pte its value
      step(pte_addr, pte) ==
        IF level = VM_PTAB_LEVELS
        THEN IF pte = 0
             THEN vm_pagedir_alloc_backing_page(mm, mem, pte_addr)
             ELSE [pte |-> pte, mm |-> mm, mem |-> mem, panic |-> FALSE]
        ELSE
          LET bits2 == bits + VM_PTAB_BITS
              masked2 == getbits(masked_vfn, VFN_BITS - (1 + bits2), VFN_BITS - bits2)
              \* the statements after  ptab2 = vm_ptab_create(pagedir->mm)
              created(t) ==
                IF t.ptab = 0
                THEN [pte |-> 0, mm |-> t.mm, mem |-> t.mem, panic |-> TRUE]
                ELSE vm_pagedir_lookup_loop(
                       t.mm,
                       MemWrite(t.mem, pte_addr, ShiftR(t.ptab, PAGE_SIZE_BITS)),
                       t.ptab, masked2, bits2, level + 1)
          IN IF pte # 0
             THEN vm_pagedir_lookup_loop(mm, mem, ShiftL(pte, PAGE_SIZE_BITS),
                                         masked2, bits2, level + 1)
             ELSE created(vm_ptab_create(mm, mem))
      at(pte_addr) == step(pte_addr, MemRead(mem, pte_addr))
  IN at(ptab + getbits(masked_vfn, VFN_BITS - (1 + bits), VM_PTAB_BITS) * PTE_SIZE)

\* vm_pagedir_lookup_pte(pagedir, vfn), vfn > 0
vm_pagedir_lookup_pte(mm, mem, root, vfn) ==
  vm_pagedir_lookup_loop(mm, mem, root, vfn - 1, 0, 1)

\* vm_pagedir_translate(pagedir, vaddr); result: haddr, mm, mem, panic
vm_pagedir_translate(mm, mem, root, vaddr) ==
  LET after(w) ==
        [haddr |-> Wrap(ShiftL(w.pte, PAGE_SIZE_BITS) + VM_ADDR_OFFSET(vaddr)),
         mm |-> w.mm, mem |-> w.mem, panic |-> w.panic]
  IN after(vm_pagedir_lookup_pte(mm, mem, root, VM_VFN(vaddr)))

\* vm_pagedir_dispose(pagedir): vm_ptab_free(pagedir->mm, pagedir->root)
vm_pagedir_dispose(mm, root) == rmm_freepages(mm, root).mm

\* ------------------------------------------------------------------------
\* translation cache
\* ------------------------------------------------------------------------

\* vm_cache_init that fills the cache with zero bytes
vm_cache_init_zero ==
  [i \in 0 .. VM_CACHE_LEN - 1 |-> [tag |-> 0, haddr_diff |-> 0]]

\* memset(cache, 0xff, sizeof(vm_cache_t))
vm_cache_init ==
  [i \in 0 .. VM_CACHE_LEN - 1 |-> [tag |-> U64 - 1, haddr_diff |-> U64 - 1]]

vm_cache_invalidate == vm_cache_init

\* vm_cache_invalidate_one(cache, vaddr): the entry of vaddr becomes all ones
vm_cache_invalidate_one(c, vaddr) ==
  [c EXCEPT ![BitAnd(VM_VFN(vaddr), VM_CACHE_INDEX_VFN_MASK)] =
              [tag |-> U64 - 1, haddr_diff |-> U64 - 1]]

\* vm_cache_lookup that expects the page address whatever the alignment
vm_cache_lookup_noalign(c, vaddr, alignment) ==
  LET index == BitAnd(VM_VFN(vaddr), VM_CACHE_INDEX_VFN_MASK)
      actual_tag == c[index].tag
      expected_tag == BitAnd(vaddr, VM_ADDR_PAGE_MASK)
      is_valid == IF actual_tag = expected_tag THEN 1 ELSE 0
  IN Wrap(c[index].haddr_diff + vaddr) * is_valid

\* vm_cache_lookup that adds the page address instead of vaddr
vm_cache_lookup_pagebase(c, vaddr, alignment) ==
  LET index == BitAnd(VM_VFN(vaddr), VM_CACHE_INDEX_VFN_MASK)
      actual_tag == c[index].tag
      expected_tag == BitAnd(vaddr, BitXor(VM_ADDR_PAGE_MASK, alignment - 1))
      is_valid == IF actual_tag = expected_tag THEN 1 ELSE 0
  IN Wrap(c[index].haddr_diff + VM_PAGE_ADDR(vaddr)) * is_valid

\* vm_cache_lookup that takes every filled entry for the page of vaddr
vm_cache_lookup_anytag(c, vaddr, alignment) ==
  LET index == BitAnd(VM_VFN(vaddr), VM_CACHE_INDEX_VFN_MASK)
      actual_tag == c[index].tag
      is_valid == IF actual_tag # U64 - 1 THEN 1 ELSE 0
  IN Wrap(c[index].haddr_diff + vaddr) * is_valid

\* vm_cache_lookup(cache, vaddr, alignment): the host address, 0 on a miss
vm_cache_lookup(c, vaddr, alignment) ==
  LET index == BitAnd(VM_VFN(vaddr), VM_CACHE_INDEX_VFN_MASK)
      actual_tag == c[index].tag
      expected_tag == BitAnd(vaddr, BitXor(VM_ADDR_PAGE_MASK, alignment - 1))
      is_valid == IF actual_tag = expected_tag THEN 1 ELSE 0
  IN Wrap(c[index].haddr_diff + vaddr) * is_valid

\* vm_cache_add that stores the host page address instead of the difference
vm_cache_add_nodiff(c, vpaddr, hpaddr) ==
  LET index == BitAnd(VM_VFN(vpaddr), VM_CACHE_INDEX_VFN_MASK)
      haddr_diff == hpaddr
  IN [haddr_diff |-> haddr_diff,
      cache |-> [c EXCEPT ![index] = [tag |-> vpaddr, haddr_diff |-> haddr_diff]]]

\* vm_cache_add(cache, vpaddr, hpaddr); result: haddr_diff, cache
vm_cache_add(c, vpaddr, hpaddr) ==
  LET index == BitAnd(VM_VFN(vpaddr), VM_CACHE_INDEX_VFN_MASK)
      haddr_diff == Wrap(hpaddr - vpaddr)
  IN [haddr_diff |-> haddr_diff,
      cache |-> [c EXCEPT ![index] = [tag |-> vpaddr, haddr_diff |-> haddr_diff]]]

\* _vm_cache_miss that caches vaddr itself instead of its page address
_vm_cache_miss_unmasked(c, mm, mem, root, vaddr, op) ==
  IF VM_ADDR_MIN > vaddr \/ vaddr > VM_ADDR_MAX
  THEN [haddr_diff |-> 0, cache |-> c, mm |-> mm, mem |-> mem, panic |-> TRUE,
        msg |-> "out of range"]
  ELSE IF ~IS_ALIGN2(vaddr, op.alignment)
  THEN [haddr_diff |-> 0, cache |-> c, mm |-> mm, mem |-> mem, panic |-> TRUE,
        msg |-> "misaligned"]
  ELSE
    LET added(w, a) ==
          [haddr_diff |-> a.haddr_diff, cache |-> a.cache, mm |-> w.mm,
           mem |-> w.mem, panic |-> FALSE, msg |-> ""]
        \* the statements after the lookup, hpaddr the host page address
        after(w, hpaddr) ==
          IF w.panic
          THEN [haddr_diff |-> 0, cache |-> c, mm |-> w.mm, mem |-> w.mem, panic |-> TRUE,
                msg |-> "no memory"]
          ELSE IF hpaddr = 0
          THEN [haddr_diff |-> 0, cache |-> c, mm |-> w.mm, mem |-> w.mem, panic |-> FALSE,
                msg |-> ""]
          ELSE added(w, vm_cache_add(c, vaddr, hpaddr))
        shifted(w) == after(w, ShiftL(w.pte, PAGE_SIZE_BITS))
    IN shifted(vm_pagedir_lookup_pte(mm, mem, root, VM_VFN(vaddr)))

\* _vm_cache_miss that checks the alignment after the page-directory walk
_vm_cache_miss_checklate(c, mm, mem, root, vaddr, op) ==
  IF VM_ADDR_MIN > vaddr \/ vaddr > VM_ADDR_MAX
  THEN [haddr_diff |-> 0, cache |-> c, mm |-> mm, mem |-> mem, panic |-> TRUE,
        msg |-> "out of range"]
  ELSE
    LET added(w, a) ==
          [haddr_diff |-> a.haddr_diff, cache |-> a.cache, mm |-> w.mm,
           mem |-> w.mem, panic |-> FALSE, msg |-> ""]
        after(w, hpaddr) ==
          IF w.panic
          THEN [haddr_diff |-> 0, cache |-> c, mm |-> w.mm, mem |-> w.mem, panic |-> TRUE,
                msg |-> "no memory"]
          ELSE IF ~IS_ALIGN2(vaddr, op.alignment)
          THEN [haddr_diff |-> 0, cache |-> c, mm |-> w.mm, mem |-> w.mem, panic |-> TRUE,
                msg |-> "misaligned"]
          ELSE IF hpaddr = 0
          THEN [haddr_diff |-> 0, cache |-> c, mm |-> w.mm, mem |-> w.mem, panic |-> FALSE,
                msg |-> ""]
          ELSE added(w, vm_cache_add(c, VM_PAGE_ADDR(vaddr), hpaddr))
        shifted(w) == after(w, ShiftL(w.pte, PAGE_SIZE_BITS))
    IN shifted(vm_pagedir_lookup_pte(mm, mem, root, VM_VFN(vaddr)))

\* _vm_cache_miss(cache, pagedir, vaddr, op), op = [type, alignment]
\* result: haddr_diff, cache, mm, mem, panic, msg (what panic() reports)
_vm_cache_miss(c, mm, mem, root, vaddr, op) ==
  IF VM_ADDR_MIN > vaddr \/ vaddr > VM_ADDR_MAX
  THEN [haddr_diff |-> 0, cache |-> c, mm |-> mm, mem |-> mem, panic |-> TRUE,
        msg |-> "out of range"]
  ELSE IF ~IS_ALIGN2(vaddr, op.alignment)
  THEN [haddr_diff |-> 0, cache |-> c, mm |-> mm, mem |-> mem, panic |-> TRUE,
        msg |-> "misaligned"]
  ELSE
    LET added(w, a) ==
          [haddr_diff |-> a.haddr_diff, cache |-> a.cache, mm |-> w.mm,
           mem |-> w.mem, panic |-> FALSE, msg |-> ""]
        \* the statements after the lookup, hpaddr the host page address
        after(w, hpaddr) ==
          IF w.panic
          THEN [haddr_diff |-> 0, cache |-> c, mm |-> w.mm, mem |-> w.mem, panic |-> TRUE,
                msg |-> "no memory"]
          ELSE IF hpaddr = 0
          THEN [haddr_diff |-> 0, cache |-> c, mm |-> w.mm, mem |-> w.mem, panic |-> FALSE,
                msg |-> ""]
          ELSE added(w, vm_cache_add(c, VM_PAGE_ADDR(vaddr), hpaddr))
        shifted(w) == after(w, ShiftL(w.pte, PAGE_SIZE_BITS))
    IN shifted(vm_pagedir_lookup_pte(mm, mem, root, VM_VFN(vaddr)))

\* the translation that VM_LOAD / VM_STORE inline: cache lookup with the
\* alignment of the access, the miss handler on a miss
\* result: haddr, hit, cache, mm, mem, panic, msg
vm_translate(c, mm, mem, root, vaddr, op) ==
  LET missed(m) ==
        [haddr |-> Wrap(vaddr + m.haddr_diff), hit |-> FALSE, cache |-> m.cache,
         mm |-> m.mm, mem |-> m.mem, panic |-> m.panic, msg |-> m.msg]
      looked(haddr) ==
        IF haddr # 0
        THEN [haddr |-> haddr, hit |-> TRUE, cache |-> c, mm |-> mm, mem |-> mem,
              panic |-> FALSE, msg |-> ""]
        ELSE missed(_vm_cache_miss(c, mm, mem, root, vaddr, op))
  IN looked(vm_cache_lookup(c, vaddr, op.alignment))

\* ------------------------------------------------------------------------
\* the VM as a state machine: one page directory, one cache
\* ------------------------------------------------------------------------

\* the accesses <<sizeof(T), vaddr>> that are made: bytes and words of the
\* lowest page (one word misaligned); a word of a page that shares the cache
\* index of the lowest page; the last word of the address space; words
\* below VM_ADDR_MIN (one of them misaligned) and a word above VM_ADDR_MAX
Accesses ==
  {<<4, VM_ADDR_MIN>>, <<1, VM_ADDR_MIN>>, <<1, VM_ADDR_MIN + 2>>,
   <<4, VM_ADDR_MIN + 2>>,
   <<4, VM_ADDR_MIN + VM_CACHE_LEN * PAGE_SIZE + 4>>,
   <<4, VM_ADDR_MAX - 3>>,
   <<4, 8>>, <<4, 6>>, <<4, VM_ADDR_MAX + 1>>}

Vals(size) == {[i \in 1 .. size |-> v] : v \in 1 .. NVals}

InitVM ==
  LET mm0 == rmm_create(16 * PAGE_SIZE, VMPages)
      pd == vm_pagedir_create(mm0, <<>>, TRUE)
  IN /\ pd.root # 0
     /\ start_addr = pd.mm.start_addr
     /\ end_addr = pd.mm.end_addr
     /\ free_size = pd.mm.free_size
     /\ freelists = pd.mm.freelists
     /\ bitsets = pd.mm.bitsets
     /\ fault = pd.mm.fault
     /\ live = {}
     /\ seed = mm0.freelists
     /\ last = NoCall
     /\ pd_root = pd.root
     /\ hmem = pd.mem
     /\ cache = vm_cache_init
     /\ vm_state = "run"
     /\ shadow = <<>>
     /\ vm_last = [op |-> "none"]
     /\ KmemIdle

\* VM_STORE(T, cache, pagedir, vaddr, value), sizeof(T) = size
Store(size, vaddr, val) ==
  /\ vm_state = "run"
  /\ \E t \in {vm_translate(cache, MM, hmem, pd_root, vaddr,
                            [type |-> "store", alignment |-> size])} :
        /\ SetMM(t.mm)
        /\ cache' = t.cache
        /\ IF t.panic
           THEN /\ vm_state' = "panic"
                /\ hmem' = t.mem
                /\ shadow' = shadow
                /\ vm_last' = [op |-> "panic", vaddr |-> vaddr, size |-> size,
                               msg |-> t.msg]
           ELSE /\ vm_state' = vm_state
                /\ hmem' = MemWriteBytes(t.mem, t.haddr, val)
                /\ shadow' = MemWriteBytes(shadow, vaddr, val)
                /\ vm_last' = [op |-> "store", vaddr |-> vaddr, size |-> size,
                               hit |-> t.hit]
  /\ UNCHANGED <<thr_vars, kmem_vars, live, seed, last, pd_root>>

\* VM_LOAD(T, cache, pagedir, vaddr), sizeof(T) = size
Load(size, vaddr) ==
  /\ vm_state = "run"
  /\ \E t \in {vm_translate(cache, MM, hmem, pd_root, vaddr,
                            [type |-> "load", alignment |-> size])} :
        /\ SetMM(t.mm)
        /\ cache' = t.cache
        /\ hmem' = t.mem
        /\ IF t.panic
           THEN /\ vm_state' = "panic"
                /\ vm_last' = [op |-> "panic", vaddr |-> vaddr, size |-> size,
                               msg |-> t.msg]
           ELSE /\ vm_state' = vm_state
                /\ vm_last' = [op |-> "load", vaddr |-> vaddr, size |-> size,
                               val |-> MemReadBytes(t.mem, t.haddr, size),
                               hit |-> t.hit]
  /\ UNCHANGED <<thr_vars, kmem_vars, live, seed, last, pd_root, shadow>>

\* vm_cache_invalidate(cache)
CacheInvalidate ==
  /\ vm_state = "run"
  /\ cache' = vm_cache_invalidate
  /\ vm_last' = [op |-> "invalidate"]
  /\ UNCHANGED <<thr_vars, kmem_vars, pmm_vars, live, seed, last, pd_root, hmem, vm_state, shadow>>

\* vm_pagedir_dispose(pagedir)
PagedirDispose ==
  /\ vm_state = "run"
  /\ SetMM(vm_pagedir_dispose(MM, pd_root))
  /\ vm_state' = "disposed"
  /\ vm_last' = [op |-> "dispose"]
  /\ UNCHANGED <<thr_vars, kmem_vars, live, seed, last, pd_root, hmem, cache, shadow>>

NextVM ==
  \/ \E a \in Accesses : \E val \in Vals(a[1]) : Store(a[1], a[2], val)
  \/ \E a \in Accesses : Load(a[1], a[2])
  \/ CacheInvalidate
  \/ PagedirDispose

SpecVM == InitVM /\ [][NextVM]_vars

\* ------------------------------------------------------------------------
\* the page directory alone: translations and miss-handler walks over host
\* memory that holds what its earlier owners have left in it
\* ------------------------------------------------------------------------

\* guest addresses that are translated: two pages under the first entry of the
\* root, a page under its second entry, the highest page
DirAddrs ==
  {vfn * PAGE_SIZE + off :
     vfn \in {1, 2, VM_PTAB_LEN + 1, Pow2(VFN_BITS) - 1}, off \in {0, 8}}

\* what the pages hold when the PMM hands them out: the links of the list
\* nodes that rmm_create and rmm_freepages embed in free blocks (the first two
\* words) and a word of an earlier owner
DirtyMem(start, npages) ==
  [a \in {start + i * PAGE_SIZE + off : i \in 0 .. npages - 1,
                                        off \in {0, PTE_SIZE, 3 * PTE_SIZE}} |-> 1]

\* shadow is the host page that the first translation of each guest page
\* has returned
InitDir ==
  LET mm0 == rmm_create(16 * PAGE_SIZE, VMPages)
      pd == vm_pagedir_create(mm0, DirtyMem(mm0.start_addr, VMPages), TRUE)
  IN /\ pd.root # 0
     /\ start_addr = pd.mm.start_addr
     /\ end_addr = pd.mm.end_addr
     /\ free_size = pd.mm.free_size
     /\ freelists = pd.mm.freelists
     /\ bitsets = pd.mm.bitsets
     /\ fault = pd.mm.fault
     /\ live = {}
     /\ seed = mm0.freelists
     /\ last = NoCall
     /\ pd_root = pd.root
     /\ hmem = pd.mem
     /\ cache = vm_cache_init
     /\ vm_state = "run"
     /\ shadow = <<>>
     /\ vm_last = [op |-> "none"]
     /\ KmemIdle

\* the first host page of each guest page, with that of vaddr added
DirFirst(vaddr, haddr, panic) ==
  IF panic \/ VM_PAGE_ADDR(vaddr) \in DOMAIN shadow THEN shadow
  ELSE [p \in DOMAIN shadow \cup {VM_PAGE_ADDR(vaddr)} |->
          IF p = VM_PAGE_ADDR(vaddr) THEN haddr - VM_ADDR_OFFSET(vaddr) ELSE shadow[p]]

\* haddr = vm_pagedir_translate(pagedir, vaddr)
DirTranslate(vaddr) ==
  /\ vm_state = "run"
  /\ \E t \in {vm_pagedir_translate(MM, hmem, pd_root, vaddr)} :
       /\ SetMM(t.mm)
       /\ hmem' = t.mem
       /\ vm_state' = IF t.panic THEN "panic" ELSE vm_state
       /\ shadow' = DirFirst(vaddr, t.haddr, t.panic)
       /\ vm_last' = [op |-> "translate", vaddr |-> vaddr, haddr |-> t.haddr,
                      panic |-> t.panic,
                      first |-> VM_PAGE_ADDR(vaddr) \notin DOMAIN shadow,
                      avail_before |-> rmm_avail_total(MM),
                      avail_after |-> rmm_avail_total(t.mm)]
  /\ UNCHANGED <<thr_vars, kmem_vars, live, seed, last, pd_root, cache>>

\* _vm_cache_miss(cache, pagedir, vaddr, op) of a load of size bytes
DirMiss(vaddr, size) ==
  /\ vm_state = "run"
  /\ \E m \in {_vm_cache_miss(cache, MM, hmem, pd_root, vaddr,
                              [type |-> "load", alignment |-> size])} :
       /\ SetMM(m.mm)
       /\ hmem' = m.mem
       /\ cache' = m.cache
       /\ vm_state' = IF m.panic THEN "panic" ELSE vm_state
       /\ shadow' = DirFirst(vaddr, Wrap(vaddr + m.haddr_diff), m.panic)
       /\ vm_last' = [op |-> "miss", vaddr |-> vaddr,
                      haddr |-> Wrap(vaddr + m.haddr_diff), panic |-> m.panic,
                      first |-> VM_PAGE_ADDR(vaddr) \notin DOMAIN shadow,
                      avail_before |-> rmm_avail_total(MM),
                      avail_after |-> rmm_avail_total(m.mm)]
  /\ UNCHANGED <<thr_vars, kmem_vars, live, seed, last, pd_root>>

NextDir ==
  \/ \E vaddr \in DirAddrs : DirTranslate(vaddr)
  \/ \E vaddr \in DirAddrs : DirMiss(vaddr, 8)

SpecDir == InitDir /\ [][NextDir]_vars

\* ------------------------------------------------------------------------
\* the translation cache on its own: test_vm adds, looks up and invalidates
\* entries without a page directory
\* ------------------------------------------------------------------------

\* guest pages: page 0, the lowest legal page, a page that shares its cache
\* index, and the highest page of the 64-bit space
GuestPages ==
  {0, VM_ADDR_MIN, VM_ADDR_MIN + VM_CACHE_LEN * PAGE_SIZE, U64 - PAGE_SIZE}

\* host pages (not the null page), below and above the guest pages
HostPages == {2 * PAGE_SIZE, 5 * PAGE_SIZE, U64 - 2 * PAGE_SIZE}

\* offsets into a page
PageOffsets == {0, 1, 2, 4, 8, 3823, PAGE_SIZE - 1}

\* the addresses that are looked up
Probes == {vp + off : vp \in GuestPages, off \in PageOffsets}

\* VM_OP_ALIGNMENT(op): the sizes of the types that are loaded and stored
AccessAlignments == {1, 2, 4, 8}

InitCache ==
  /\ InitVM
  /\ vm_state = "run"

\* vm_cache_add(cache, vpaddr, hpaddr)
CacheAdd(vpaddr, hpaddr) ==
  /\ vm_state = "run"
  /\ IS_ALIGN2(vpaddr, PAGE_SIZE) /\ IS_ALIGN2(hpaddr, PAGE_SIZE)
  /\ cache' = vm_cache_add(cache, vpaddr, hpaddr).cache
  /\ vm_last' = [op |-> "add", vaddr |-> vpaddr, hpaddr |-> hpaddr]
  /\ UNCHANGED <<thr_vars, kmem_vars, pmm_vars, live, seed, last, pd_root, hmem, vm_state, shadow>>

\* vm_cache_invalidate_one(cache, vaddr)
CacheInvalidateOne(vaddr) ==
  /\ vm_state = "run"
  /\ cache' = vm_cache_invalidate_one(cache, vaddr)
  /\ vm_last' = [op |-> "invalidate_one", vaddr |-> vaddr]
  /\ UNCHANGED <<thr_vars, kmem_vars, pmm_vars, live, seed, last, pd_root, hmem, vm_state, shadow>>

NextCache ==
  \/ \E vp \in GuestPages, hp \in HostPages : CacheAdd(vp, hp)
  \/ \E v \in Probes : CacheInvalidateOne(v)
  \/ CacheInvalidate

SpecCache == InitCache /\ [][NextCache]_vars

\* one page directory and one cache: loads and stores, with the cache
\* invalidated as a whole or one entry at a time in between
VMCacheAddrs == {a[2] : a \in Accesses}

NextVMCache ==
  \/ \E a \in Accesses : \E val \in Vals(a[1]) : Store(a[1], a[2], val)
  \/ \E a \in Accesses : Load(a[1], a[2])
  \/ CacheInvalidate
  \/ \E v \in VMCacheAddrs : CacheInvalidateOne(v)

SpecVMCache == InitVM /\ [][NextVMCache]_vars

\* ------------------------------------------------------------------------
\* the kernel-style memory allocator (kmem): one sub-heap and the slab heaps
\* ------------------------------------------------------------------------

\* log2 of SLABHEAP_BLOCK_SIZE (PAGE_SIZE * 16 in the source), scaled
SlabBlockBits == 7

\* chunks of the run handed to heap_init for the initial sub-heap
KHeapChunks == 8

\* live regions a client of kmem_alloc_aligned holds at most
KMaxLive == 2

\* allocations of one slab run at most
SlabMaxN == 4

\* regions of the batch a client allocates at most
KBatchLen == 9

CHUNK_SIZE == 64
SLABHEAP_COUNT == 4
SLABHEAP_MIN_SIZE == 8
SLABHEAP_BLOCK_SIZE == Pow2(SlabBlockBits)
HEAP_MIN_SIZE == CHUNK_SIZE * 2
XMAX(a, b) == IF a > b THEN a ELSE b
HEAP_MAX_ALIGN == XMAX(PAGE_SIZE, SLABHEAP_BLOCK_SIZE)
BEST_FIT_THRESHOLD == 128
KMEM_ALLOC_SCRUB_BYTE == 187
KMEM_FREE_SCRUB_BYTE == 170

\* sizeof(slabblock_t) and the offsets of its fields
sizeof_slabblock_t == 24
OFF_next == 0
OFF_recycle == 8
OFF_cap == 16

\* sizeof(void*): the unit in which the heap memory is kept
PTR_SIZE == 8

\* the heap memory K.mem maps the address of an 8-byte word to its value and
\* leaves out the words that are zero.  A word whose bytes are all b, written
\* by memset, is kept as -b: it is no address of the heap, and its two u32
\* halves are equal.
ScrubWord(b) == 0 - b

\* the two u32 halves of a word: slabblock_t.cap (low) and .len (high)
HalfWord == Pow2(WordBits \div 2)
LoHalf(w) == IF w < 0 THEN w ELSE w % HalfWord
HiHalf(w) == IF w < 0 THEN w ELSE (w \div HalfWord) % HalfWord
PackHalves(lo, hi) == lo + HalfWord * hi

\* address of the chunk region of the initial sub-heap (HEAP_MAX_ALIGN aligned)
KBase == 4 * HEAP_MAX_ALIGN

\* the word at addr lies in the chunk region of the sub-heap
InChunks(K, addr) ==
  /\ addr >= K.heap.chunks
  /\ addr + PTR_SIZE <= K.heap.chunks + K.heap.chunk_cap * CHUNK_SIZE
  /\ addr % PTR_SIZE = 0

KFault(K, msg) == IF K.fault = "" THEN [K EXCEPT !.fault = msg] ELSE K

\* *(uintptr*)addr
KLoad(K, addr) == IF addr \in DOMAIN K.mem THEN K.mem[addr] ELSE 0

\* *(uintptr*)addr = v; a store outside the chunk region overwrites memory
\* the allocator does not own
KStore(K, addr, v) ==
  IF K.fault # "" THEN K
  ELSE IF ~InChunks(K, addr) THEN KFault(K, "store outside the heap")
  ELSE [K EXCEPT !.mem =
          [x \in (DOMAIN K.mem \cup {addr}) \ (IF v = 0 THEN {addr} ELSE {})
             |-> IF x = addr THEN v ELSE K.mem[x]]]

\* memset(ptr, byte, n), n a multiple of 8
KMemset(K, ptr, byte, n) ==
  LET words == {ptr + PTR_SIZE * k : k \in 0 .. (n \div PTR_SIZE) - 1} IN
  IF K.fault # "" THEN K
  ELSE IF \E a \in words : ~InChunks(K, a) THEN KFault(K, "memset outside the heap")
  ELSE [K EXCEPT !.mem =
          [x \in DOMAIN K.mem \cup words
             |-> IF x \in words THEN ScrubWord(byte) ELSE K.mem[x]]]

\* heap_init: the number of chunks that leaves room for the bitset
RECURSIVE heap_init_loop(_, _, _, _)
heap_init_loop(p, p_end, chunk_cap, chunk_cap_sub) ==
  IF p + chunk_cap * CHUNK_SIZE + (chunk_cap \div 8) > p_end
  THEN heap_init_loop(p, p_end, Wrap(chunk_cap - chunk_cap_sub + U64),
                      Wrap(chunk_cap_sub * 2))
  ELSE chunk_cap

\* heap_init(h, p, size)
heap_init(p, size) ==
  [chunk_cap |-> heap_init_loop(p, p + size, (size \div CHUNK_SIZE) - 1, 1),
   chunk_len |-> 0,
   chunks |-> p,
   chunk_use |-> {}]

\* heap_init called on its own, for sizes of whole chunks and of a byte more or
\* less: HeapInitMaxChunks bounds the size, in chunks
HeapInitMaxChunks == 1100

HeapInitSizes ==
  {c * CHUNK_SIZE + d : c \in 2 .. HeapInitMaxChunks, d \in {0, 1, CHUNK_SIZE - 1}}

InitHeapInit ==
  LET mm0 == rmm_create(16 * PAGE_SIZE, VMPages) IN
  /\ start_addr = mm0.start_addr
  /\ end_addr = mm0.end_addr
  /\ free_size = mm0.free_size
  /\ freelists = mm0.freelists
  /\ bitsets = mm0.bitsets
  /\ fault = mm0.fault
  /\ live = {}
  /\ seed = mm0.freelists
  /\ last = NoCall
  /\ pd_root = 0
  /\ hmem = <<>>
  /\ cache = <<>>
  /\ vm_state = "run"
  /\ shadow = <<>>
  /\ vm_last = [op |-> "none"]
  /\ KmemIdle

\* heap_init(&h, p, size), size >= HEAP_MIN_SIZE (the assertf of heap_init)
HeapInit(p, size) ==
  /\ size >= HEAP_MIN_SIZE
  /\ \E h \in {heap_init(p, size)} :
       klast' = [op |-> "heap_init", p |-> p, size |-> size,
                 chunk_cap |-> h.chunk_cap, chunks |-> h.chunks]
  /\ UNCHANGED <<pmm_vars, live, seed, last, vm_vars, ka, klive, krun, thr_vars>>

NextHeapInit == \E size \in HeapInitSizes : HeapInit(PAGE_SIZE, size)

SpecHeapInit == InitHeapInit /\ [][NextHeapInit]_vars

\* heap_contains(h, ptr, size)
heap_contains(h, ptr, size) ==
  ptr >= h.chunks /\ ptr + size <= h.chunks + h.chunk_cap * CHUNK_SIZE

\* heap_avail(h)
heap_avail(h) == (h.chunk_cap - h.chunk_len) * CHUNK_SIZE

\* heap_cap(h)
heap_cap(h) == h.chunk_cap * CHUNK_SIZE

\* the clear bits from bit i on, up to the next set bit or the end
RECURSIVE ClearRun(_, _, _)
ClearRun(use, cap, i) ==
  IF i >= cap \/ i \in use THEN 0 ELSE 1 + ClearRun(use, cap, i + 1)

\* the starts of the runs of at least minlen clear bits, at multiples of stride
FitStarts(use, cap, minlen, stride) ==
  {i \in 0 .. cap - 1 : i % stride = 0 /\ ClearRun(use, cap, i) >= minlen}

\* bitset_find_first_fit(bset, &start, minlen, stride): the first run
bitset_find_first_fit(use, cap, minlen, stride) ==
  LET starts == FitStarts(use, cap, minlen, stride) IN
  IF starts = {} THEN [start |-> 0, len |-> 0]
  ELSE [start |-> CHOOSE i \in starts : \A j \in starts : i <= j, len |-> minlen]

\* bitset_find_best_fit(bset, &start, minlen, stride): the smallest run, the
\* lowest one among equals
bitset_find_best_fit(use, cap, minlen, stride) ==
  LET starts == FitStarts(use, cap, minlen, stride)
      better(i, j) == \/ ClearRun(use, cap, i) < ClearRun(use, cap, j)
                      \/ ClearRun(use, cap, i) = ClearRun(use, cap, j) /\ i <= j
  IN IF starts = {} THEN [start |-> 0, len |-> 0]
     ELSE [start |-> CHOOSE i \in starts : \A j \in starts : better(i, j),
           len |-> minlen]

\* heap_alloc(h, &size, alignment) on the sub-heap of K; result: K, ptr, size
heap_alloc(K, size, alignment) ==
  LET h == K.heap
      nchunks == (size + CHUNK_SIZE - 1) \div CHUNK_SIZE
      chunks_align == XMAX(alignment \div CHUNK_SIZE, 1)
      marked(f) ==
        [K EXCEPT !.heap.chunk_use = @ \cup (f.start .. f.start + f.len - 1),
                  !.heap.chunk_len = @ + f.len]
      found(f) ==
        IF f.len = 0 THEN [K |-> K, ptr |-> 0, size |-> size]
        ELSE IF ~IS_ALIGN2(h.chunks + f.start * CHUNK_SIZE, alignment)
        THEN [K |-> KFault(marked(f), "assert: bug in heap_alloc"), ptr |-> 0,
              size |-> size]
        ELSE [K |-> KMemset(marked(f), h.chunks + f.start * CHUNK_SIZE,
                            KMEM_ALLOC_SCRUB_BYTE, f.len * CHUNK_SIZE),
              ptr |-> h.chunks + f.start * CHUNK_SIZE,
              size |-> f.len * CHUNK_SIZE]
  IN IF h.chunk_cap - h.chunk_len < nchunks
     THEN [K |-> K, ptr |-> 0, size |-> size]
     ELSE IF nchunks < BEST_FIT_THRESHOLD
     THEN CHOOSE y \in {found(f) : f \in {bitset_find_first_fit(
                                              h.chunk_use, h.chunk_cap, nchunks,
                                              chunks_align)}} : TRUE
     ELSE CHOOSE y \in {found(f) : f \in {bitset_find_best_fit(
                                              h.chunk_use, h.chunk_cap, nchunks,
                                              chunks_align)}} : TRUE

\* heap_free(h, ptr, size) on the sub-heap of K
heap_free(K, ptr, size) ==
  LET h == K.heap
      chunk_index == ((ptr - (ptr % CHUNK_SIZE)) - h.chunks) \div CHUNK_SIZE
      chunk_len == size \div CHUNK_SIZE
  IN IF ~heap_contains(h, ptr, size) THEN KFault(K, "assert: heap_contains")
     ELSE IF chunk_index \notin h.chunk_use
     THEN KFault(K, "assert: segment is already free")
     ELSE IF h.chunk_len < chunk_len THEN KFault(K, "assert: chunk_len")
     ELSE KMemset([K EXCEPT !.heap.chunk_use =
                              @ \ (chunk_index .. chunk_index + chunk_len - 1),
                            !.heap.chunk_len = @ - chunk_len],
                  ptr, KMEM_FREE_SCRUB_BYTE, size)

\* kmem_expand(a, minsize): panic("TODO expand memory")
kmem_expand(K) == KFault(K, "panic: TODO expand memory")

\* kmem_heapalloc(a, &size, alignment): the first sub-heap that has room
kmem_heapalloc(K, size, alignment) == heap_alloc(K, size, alignment)

\* the three words of a slabblock_t lie in the chunk region
InChunksHeader(K, block) ==
  InChunks(K, block + OFF_next) /\ InChunks(K, block + OFF_cap)

\* slabheap_grow(a, sh), sh = &a->slabheaps[i]; result: K, block
slabheap_grow(K, i) ==
  LET header(H, block) ==
        KStore(KStore(KStore(H, block + OFF_cap,
                             PackHalves(SLABHEAP_BLOCK_SIZE \div H.slab[i].size, 0)),
                      block + OFF_recycle, 0),
               block + OFF_next, 0)
      init(r) ==
        IF r.ptr = 0 THEN [K |-> kmem_expand(r.K), block |-> 0]
        ELSE IF r.K.fault # "" THEN [K |-> r.K, block |-> 0]
        ELSE IF r.ptr % SLABHEAP_BLOCK_SIZE # 0
        THEN [K |-> KFault(r.K, "assert: misaligned block"), block |-> 0]
        ELSE [K |-> [header(r.K, r.ptr) EXCEPT !.slab[i].usable = r.ptr],
              block |-> r.ptr]
  IN IF K.slab[i].usable # 0
     THEN [K |-> KFault(K, "assert: usable is not null"), block |-> 0]
     ELSE init(kmem_heapalloc(K, SLABHEAP_BLOCK_SIZE, SLABHEAP_BLOCK_SIZE))

\* slabheap_alloc(a, sh), sh = &a->slabheaps[i]; result: K, ptr
slabheap_alloc(K, i) ==
  LET size == K.slab[i].size
      \* the block moves to the full list
      tofull(H, block) ==
        [KStore(H, block + OFF_next, H.slab[i].full)
           EXCEPT !.slab[i].usable = KLoad(H, block + OFF_next),
                  !.slab[i].full = block]
      \* after block->recycle = chunk->next
      dequeued(H, block, chunk) ==
        IF H.fault # "" THEN [K |-> H, ptr |-> 0]
        ELSE IF KLoad(H, chunk) = 0
                /\ HiHalf(KLoad(H, block + OFF_cap)) = LoHalf(KLoad(H, block + OFF_cap))
        THEN [K |-> tofull(H, block), ptr |-> chunk]
        ELSE [K |-> H, ptr |-> chunk]
      \* chunk is the chunk to hand out
      take(H, block, chunk) ==
        IF H.fault # "" THEN [K |-> H, ptr |-> 0]
        ELSE IF ~InChunks(H, chunk)
        THEN [K |-> KFault(H, "load outside the heap"), ptr |-> 0]
        ELSE dequeued(KStore(H, block + OFF_recycle, KLoad(H, chunk)), block, chunk)
      \* no chunk to recycle: the next chunk of the block
      bump(H, block, cap, len) ==
        IF cap = len
        THEN [K |-> KFault(H, "assert: full block found on usable"), ptr |-> 0]
        ELSE take(KStore(KStore(H, ALIGN2(block + sizeof_slabblock_t, size) + len * size, 0),
                         block + OFF_cap, PackHalves(cap, (len + 1) % HalfWord)),
                  block, ALIGN2(block + sizeof_slabblock_t, size) + len * size)
      from(H, block) ==
        IF H.fault # "" \/ block = 0 THEN [K |-> H, ptr |-> 0]
        ELSE IF ~InChunksHeader(H, block)
        THEN [K |-> KFault(H, "load outside the heap"), ptr |-> 0]
        ELSE IF KLoad(H, block + OFF_recycle) = 0
        THEN bump(H, block, LoHalf(KLoad(H, block + OFF_cap)),
                  HiHalf(KLoad(H, block + OFF_cap)))
        ELSE take(H, block, KLoad(H, block + OFF_recycle))
      grown(g) == from(g.K, g.block)
  IN IF K.slab[i].usable = 0 THEN grown(slabheap_grow(K, i))
     ELSE from(K, K.slab[i].usable)

\* slabheap_free(a, sh, ptr), sh = &a->slabheaps[i]
slabheap_free(K, i, ptr) ==
  LET size == K.slab[i].size
      block == ptr - (ptr % SLABHEAP_BLOCK_SIZE)
      \* the block moves from the full list to the usable list
      tousable(H) ==
        [KStore(H, block + OFF_next, H.slab[i].usable)
           EXCEPT !.slab[i].full = KLoad(H, block + OFF_next),
                  !.slab[i].usable = block]
      \* H: after the memset
      link(H, recycle, block_full) ==
        IF block_full
        THEN tousable(KStore(KStore(H, ptr, recycle), block + OFF_recycle, ptr))
        ELSE KStore(KStore(H, ptr, recycle), block + OFF_recycle, ptr)
      scrubbed(H) ==
        IF H.fault # "" THEN H
        ELSE IF ~InChunksHeader(H, block) THEN KFault(H, "load outside the heap")
        ELSE link(H, KLoad(H, block + OFF_recycle),
                  /\ KLoad(H, block + OFF_recycle) = 0
                  /\ HiHalf(KLoad(H, block + OFF_cap)) = LoHalf(KLoad(H, block + OFF_cap)))
  IN IF ptr % size # 0 THEN KFault(K, "assert: invalid address")
     ELSE scrubbed(KMemset(K, ptr, KMEM_FREE_SCRUB_BYTE, size))

\* the chunks on a recycle list; -1 when the list leaves the heap or has no end
RECURSIVE RecycleLen(_, _, _, _)
RecycleLen(K, chunk, fuel, n) ==
  IF chunk = 0 THEN n
  ELSE IF fuel = 0 \/ ~InChunks(K, chunk) THEN 0 - 1
  ELSE RecycleLen(K, KLoad(K, chunk), fuel - 1, n + 1)

\* words of the chunk region: no list without a cycle is longer
KWords(K) == (K.heap.chunk_cap * CHUNK_SIZE) \div PTR_SIZE

\* the blocks on a list of a slab heap, from its head; <<-1>> when the list
\* leaves the heap or has no end
RECURSIVE BlockList(_, _, _, _)
BlockList(K, block, fuel, acc) ==
  IF block = 0 THEN acc
  ELSE IF fuel = 0 \/ ~InChunksHeader(K, block) THEN <<0 - 1>>
  ELSE BlockList(K, KLoad(K, block + OFF_next), fuel - 1, Append(acc, block))

\* slabheap_avail(sh), sh = &a->slabheaps[i]; -1 when the loops leave the heap,
\* do not end or add up a len that is no count
RECURSIVE slabheap_avail_loop(_, _, _, _)
slabheap_avail_loop(K, size, blocks, nbyte) ==
  LET block == Head(blocks)
      add(len, n) ==
        IF len < 0 \/ n < 0 THEN 0 - 1
        ELSE slabheap_avail_loop(K, size, Tail(blocks), nbyte + len * size + n * size)
  IN IF blocks = <<>> THEN nbyte
     ELSE IF block < 0 THEN 0 - 1
     ELSE add(HiHalf(KLoad(K, block + OFF_cap)),
              RecycleLen(K, KLoad(K, block + OFF_recycle), KWords(K), 0))

slabheap_avail(K, i) ==
  slabheap_avail_loop(K, K.slab[i].size,
                      BlockList(K, K.slab[i].usable, KWords(K), <<>>), 0)

\* the slab heap kmem_alloc_aligned and kmem_free pick for a size:
\* the first i with size <= slabheaps[i].size, SLABHEAP_COUNT when there is none
SlabIndex(K, size) ==
  IF \E i \in 0 .. SLABHEAP_COUNT - 1 : size <= K.slab[i].size
  THEN CHOOSE i \in 0 .. SLABHEAP_COUNT - 1 :
         /\ size <= K.slab[i].size
         /\ \A j \in 0 .. i - 1 : size > K.slab[j].size
  ELSE SLABHEAP_COUNT

\* kmem_alloc_aligned(a, size, alignment); result: K, start, size and the heap
\* that served the request (slab heap 0 .. SLABHEAP_COUNT-1, SLABHEAP_COUNT for
\* the sub-heap)
kmem_alloc_aligned(K, size, alignment) ==
  LET slabsize == ALIGN2(size, alignment)
      i == SlabIndex(K, slabsize)
      slab(r) ==
        IF r.ptr = 0
        THEN [K |-> kmem_expand(r.K), start |-> 0, size |-> K.slab[i].size, heap |-> i]
        ELSE [K |-> r.K, start |-> r.ptr, size |-> K.slab[i].size, heap |-> i]
      sub(r) ==
        IF r.ptr = 0
        THEN [K |-> kmem_expand(r.K), start |-> 0, size |-> r.size,
              heap |-> SLABHEAP_COUNT]
        ELSE [K |-> r.K, start |-> r.ptr, size |-> r.size, heap |-> SLABHEAP_COUNT]
  IN IF ~IS_POW2(alignment) \/ alignment > PAGE_SIZE
     THEN [K |-> KFault(K, "assert: alignment"), start |-> 0, size |-> size,
           heap |-> SLABHEAP_COUNT]
     ELSE IF i < SLABHEAP_COUNT
     THEN CHOOSE y \in {slab(r) : r \in {slabheap_alloc(K, i)}} : TRUE
     ELSE CHOOSE y \in {sub(r) : r \in {kmem_heapalloc(K, size, alignment)}} : TRUE

\* kmem_free(a, region); result: K and the heap the region was released into
kmem_free(K, region) ==
  LET i == SlabIndex(K, region.size) IN
  IF region.start = 0
  THEN [K |-> KFault(K, "assert: null region"), heap |-> SLABHEAP_COUNT]
  ELSE IF i < SLABHEAP_COUNT
  THEN [K |-> slabheap_free(K, i, region.start), heap |-> i]
  ELSE IF heap_contains(K.heap, region.start, region.size)
  THEN [K |-> heap_free(K, region.start, region.size), heap |-> SLABHEAP_COUNT]
  ELSE [K |-> KFault(K, "panic: kmem_free: invalid region"), heap |-> SLABHEAP_COUNT]

\* kmem_avail(a); -1 when a slabheap_avail has no value
kmem_avail(K) ==
  LET slabs == [i \in 0 .. SLABHEAP_COUNT - 1 |-> slabheap_avail(K, i)] IN
  IF \E i \in DOMAIN slabs : slabs[i] < 0 THEN 0 - 1
  ELSE slabs[0] + slabs[1] + slabs[2] + slabs[3] + heap_avail(K.heap)

\* kmem_cap(a)
kmem_cap(K) == heap_cap(K.heap)

\* ILOG2(n): the log of base 2, rounded down
RECURSIVE ILOG2(_)
ILOG2(n) == IF n <= 1 THEN 0 ELSE 1 + ILOG2(n \div 2)

\* kmem_alloc_size(size)
kmem_alloc_size(size) ==
  LET max_slab_size == Pow2((SLABHEAP_COUNT - 1) + ILOG2(SLABHEAP_MIN_SIZE)) IN
  IF size <= max_slab_size THEN CEIL_POW2(size) ELSE ALIGN2(size, CHUNK_SIZE)

\* kmem_allocator_create: the slab heaps are empty, the memory left of the
\* page run is the initial sub-heap
kmem_allocator_create(storage, size) ==
  [heap |-> heap_init(storage, size),
   slab |-> [i \in 0 .. SLABHEAP_COUNT - 1 |->
               [size |-> SLABHEAP_MIN_SIZE * Pow2(i), usable |-> 0, full |-> 0]],
   mem |-> <<>>,
   fault |-> ""]

\* sizeof(rmemalloc_t): mm, lock, subheaps, mem_origin, slabheaps,
\* expansion_in_progress
sizeof_rmemalloc_t == 152

\* kmem_allocator_create(mm, min_initmem) up to the set-up of the sub-heap;
\* mutex_ok is the result of RHMutexInit(&a->lock)
\* result: a (0 is NULL), p the page run, nbyte, mm
kmem_allocator_create_mm(mm, min_initmem, mutex_ok) ==
  LET allocator_size == ALIGN2(sizeof_rmemalloc_t, PTR_SIZE)
      initmem == ALIGN2(min_initmem, CHUNK_SIZE)
      npages == CEIL_POW2(ALIGN2(allocator_size + initmem, PAGE_SIZE) \div PAGE_SIZE)
      nbyte == npages * PAGE_SIZE
      after(r) ==
        IF r.ptr = 0 THEN [a |-> 0, p |-> 0, nbyte |-> nbyte, mm |-> r.mm]
        ELSE IF ~mutex_ok THEN [a |-> 0, p |-> r.ptr, nbyte |-> nbyte, mm |-> r.mm]
        ELSE [a |-> (r.ptr + nbyte) - allocator_size, p |-> r.ptr, nbyte |-> nbyte,
              mm |-> r.mm]
  IN after(rmm_allocpages(mm, npages))

\* the PMM and the VM are not used by the allocator runs
PmmVmIdle ==
  LET mm0 == rmm_create(16 * PAGE_SIZE, VMPages) IN
  /\ start_addr = mm0.start_addr
  /\ end_addr = mm0.end_addr
  /\ free_size = mm0.free_size
  /\ freelists = mm0.freelists
  /\ bitsets = mm0.bitsets
  /\ fault = mm0.fault
  /\ live = {}
  /\ seed = mm0.freelists
  /\ last = NoCall
  /\ pd_root = 0
  /\ hmem = <<>>
  /\ cache = <<>>
  /\ vm_state = "run"
  /\ shadow = <<>>
  /\ vm_last = [op |-> "none"]
  /\ mutex = [m \in {"mm", "pd", "kha"} |-> 0]
  /\ thread = [t \in Threads |-> ThreadIdle]

\* (size, alignment) of the requests: the slab heaps, test_kmem's aligned
\* request, a small size with an alignment above the largest slab size, a size
\* just above the largest slab size, size 0, and a size the sub-heap cannot hold
KmemRequests ==
  {<<1, 1>>, <<8, 8>>, <<64, 64>>, <<8, 128>>, <<100, 512>>, <<65, 1>>,
   <<0, 16>>, <<KHeapChunks * CHUNK_SIZE, 1>>}

InitKmem ==
  /\ PmmVmIdle
  /\ ka = kmem_allocator_create(KBase, KHeapChunks * CHUNK_SIZE)
  /\ klive = {}
  /\ klast = [op |-> "none"]
  /\ krun = [phase |-> "client"]

\* r = kmem_alloc_aligned(a, size, alignment)
KmemAlloc(size, alignment) ==
  /\ krun.phase = "client"
  /\ ka.fault = ""
  /\ Cardinality(klive) < KMaxLive
  /\ \E r \in {kmem_alloc_aligned(ka, size, alignment)} :
       /\ ka' = r.K
       /\ klive' = IF r.start = 0 THEN klive
                   ELSE klive \cup {[start |-> r.start, size |-> r.size, heap |-> r.heap]}
       /\ klast' = [op |-> "alloc", size |-> size, alignment |-> alignment,
                    start |-> r.start, rsize |-> r.size, heap |-> r.heap,
                    served |-> r.heap, roundtrip |-> FALSE,
                    avail0 |-> kmem_avail(ka)]
  /\ UNCHANGED <<thr_vars, krun, pmm_vars, live, seed, last, vm_vars>>

\* kmem_free(a, r), r a region kmem_alloc_aligned returned; roundtrip: r is the
\* region of the call just before, avail0: kmem_avail before that call
KmemFree(r) ==
  /\ krun.phase = "client"
  /\ ka.fault = ""
  /\ r \in klive
  /\ \E f \in {kmem_free(ka, [start |-> r.start, size |-> r.size])},
        rt \in {klast.op = "alloc" /\ klast.start = r.start /\ klast.rsize = r.size} :
       /\ ka' = f.K
       /\ klive' = klive \ {r}
       /\ klast' = [op |-> "free", size |-> IF rt THEN klast.size ELSE 0,
                    alignment |-> IF rt THEN klast.alignment ELSE 1,
                    start |-> r.start, rsize |-> r.size, heap |-> f.heap,
                    served |-> r.heap, roundtrip |-> rt,
                    avail0 |-> IF rt THEN klast.avail0 ELSE 0]
  /\ UNCHANGED <<thr_vars, krun, pmm_vars, live, seed, last, vm_vars>>

NextKmem ==
  \/ \E q \in KmemRequests : KmemAlloc(q[1], q[2])
  \/ \E r \in klive : KmemFree(r)

SpecKmem == InitKmem /\ [][NextKmem]_vars

\* a client that allocates a batch of regions, frees the one it allocated last
\* and allocates once more
KBatchRequests == {<<16, 16>>, <<32, 32>>}

InitKmemBatch ==
  /\ PmmVmIdle
  /\ ka = kmem_allocator_create(KBase, KHeapChunks * CHUNK_SIZE)
  /\ klive = {}
  /\ klast = [op |-> "none"]
  /\ krun = [phase |-> "batch", latest |-> [start |-> 0]]

\* r = kmem_alloc_aligned(a, size, alignment), in the batch or after the free
KBatchAlloc(size, alignment) ==
  /\ krun.phase \in {"batch", "freed"}
  /\ ka.fault = ""
  /\ Cardinality(klive) < KBatchLen
  /\ \E r \in {kmem_alloc_aligned(ka, size, alignment)} :
     \E region \in {[start |-> r.start, size |-> r.size, heap |-> r.heap]} :
       /\ ka' = r.K
       /\ klive' = IF r.start = 0 THEN klive ELSE klive \cup {region}
       /\ krun' = IF krun.phase = "freed" THEN [krun EXCEPT !.phase = "done"]
                  ELSE IF r.start = 0 THEN krun
                  ELSE [krun EXCEPT !.latest = region]
       /\ klast' = [op |-> "alloc", size |-> size, alignment |-> alignment,
                    start |-> r.start, rsize |-> r.size, heap |-> r.heap,
                    served |-> r.heap, roundtrip |-> FALSE,
                    avail0 |-> kmem_avail(ka)]
  /\ UNCHANGED <<thr_vars, pmm_vars, live, seed, last, vm_vars>>

\* kmem_free(a, r), r the region allocated last
KBatchFree ==
  /\ krun.phase = "batch"
  /\ ka.fault = ""
  /\ krun.latest \in klive
  /\ \E f \in {kmem_free(ka, [start |-> krun.latest.start, size |-> krun.latest.size])} :
       /\ ka' = f.K
       /\ klive' = klive \ {krun.latest}
       /\ krun' = [krun EXCEPT !.phase = "freed"]
       /\ klast' = [op |-> "free", size |-> 0, alignment |-> 1,
                    start |-> krun.latest.start, rsize |-> krun.latest.size,
                    heap |-> f.heap, served |-> krun.latest.heap,
                    roundtrip |-> FALSE, avail0 |-> 0]
  /\ UNCHANGED <<thr_vars, pmm_vars, live, seed, last, vm_vars>>

NextKmemBatch ==
  \/ \E q \in KBatchRequests : KBatchAlloc(q[1], q[2])
  \/ KBatchFree

SpecKmemBatch == InitKmemBatch /\ [][NextKmemBatch]_vars

\* runs on one slab heap: n allocations, the n frees in any order, n
\* allocations again
InitSlab ==
  /\ PmmVmIdle
  /\ ka = kmem_allocator_create(KBase, KHeapChunks * CHUNK_SIZE)
  /\ klive = {}
  /\ klast = [op |-> "none"]
  /\ \E i \in 0 .. SLABHEAP_COUNT - 1, n \in 1 .. SlabMaxN :
       krun = [phase |-> "alloc", class |-> i, n |-> n, count |-> 0,
               orig |-> {}, got |-> {}, blocks |-> {}]

\* ptr = slabheap_alloc(a, &a->slabheaps[class]), one of the first n
SlabAlloc ==
  /\ krun.phase = "alloc"
  /\ ka.fault = ""
  /\ \E r \in {slabheap_alloc(ka, krun.class)} :
       /\ ka' = r.K
       /\ klive' = IF r.ptr = 0 THEN klive ELSE klive \cup {r.ptr}
       /\ krun' = IF r.ptr = 0 THEN krun
                  ELSE [krun EXCEPT
                          !.count = @ + 1,
                          !.orig = @ \cup {r.ptr},
                          !.blocks = IF ka.slab[krun.class].usable = 0
                                     THEN @ \cup {r.K.slab[krun.class].usable}
                                     ELSE @,
                          !.phase = IF krun.count + 1 = krun.n THEN "free" ELSE "alloc"]
       /\ klast' = [op |-> "slabheap_alloc", start |-> r.ptr]
  /\ UNCHANGED <<thr_vars, pmm_vars, live, seed, last, vm_vars>>

\* slabheap_free(a, &a->slabheaps[class], ptr)
SlabFree(ptr) ==
  /\ krun.phase = "free"
  /\ ka.fault = ""
  /\ ptr \in klive
  /\ ka' = slabheap_free(ka, krun.class, ptr)
  /\ klive' = klive \ {ptr}
  /\ krun' = IF klive' = {} THEN [krun EXCEPT !.phase = "realloc", !.count = 0]
             ELSE krun
  /\ klast' = [op |-> "slabheap_free", start |-> ptr]
  /\ UNCHANGED <<thr_vars, pmm_vars, live, seed, last, vm_vars>>

\* ptr = slabheap_alloc(a, &a->slabheaps[class]), one of the next n
SlabRealloc ==
  /\ krun.phase = "realloc"
  /\ ka.fault = ""
  /\ \E r \in {slabheap_alloc(ka, krun.class)} :
       /\ ka' = r.K
       /\ klive' = IF r.ptr = 0 THEN klive ELSE klive \cup {r.ptr}
       /\ krun' = IF r.ptr = 0 THEN krun
                  ELSE [krun EXCEPT
                          !.count = @ + 1,
                          !.got = @ \cup {r.ptr},
                          !.phase = IF krun.count + 1 = krun.n THEN "done" ELSE "realloc"]
       /\ klast' = [op |-> "slabheap_alloc", start |-> r.ptr]
  /\ UNCHANGED <<thr_vars, pmm_vars, live, seed, last, vm_vars>>

NextSlab ==
  \/ SlabAlloc
  \/ \E ptr \in klive : SlabFree(ptr)
  \/ SlabRealloc

SpecSlab == InitSlab /\ [][NextSlab]_vars

\* ------------------------------------------------------------------------
\* creation of a page directory and of an allocator on a PMM that other
\* callers use, with either outcome of the initialisation of the mutex
\* ------------------------------------------------------------------------

CreatePages == 4

InitCreate ==
  LET mm0 == rmm_create(16 * PAGE_SIZE, CreatePages) IN
  /\ start_addr = mm0.start_addr
  /\ end_addr = mm0.end_addr
  /\ free_size = mm0.free_size
  /\ freelists = mm0.freelists
  /\ bitsets = mm0.bitsets
  /\ fault = mm0.fault
  /\ live = {}
  /\ seed = mm0.freelists
  /\ last = NoCall
  /\ pd_root = 0
  /\ hmem = <<>>
  /\ cache = <<>>
  /\ vm_state = "run"
  /\ shadow = <<>>
  /\ vm_last = [op |-> "none"]
  /\ KmemIdle

\* another caller takes a page
CreateTake ==
  /\ ~fault
  /\ \E r \in {rmm_allocpages(MM, 1)} :
       /\ r.ptr # 0
       /\ SetMM(r.mm)
       /\ live' = live \cup {[addr |-> r.ptr, npages |-> 1, by |-> 0, use |-> "caller"]}
  /\ UNCHANGED <<thr_vars, seed, last, vm_vars, kmem_vars>>

\* another caller returns a page
CreateGive ==
  /\ ~fault
  /\ \E b \in live :
       /\ b.use = "caller"
       /\ SetMM(rmm_freepages(MM, b.addr).mm)
       /\ live' = live \ {b}
  /\ UNCHANGED <<thr_vars, seed, last, vm_vars, kmem_vars>>

\* pagedir = vm_pagedir_create(mm)
CreatePagedir(mutex_ok) ==
  /\ ~fault
  /\ pd_root = 0
  /\ \E pd \in {vm_pagedir_create(MM, hmem, mutex_ok)} :
       /\ SetMM(pd.mm)
       /\ pd_root' = pd.root
       /\ hmem' = pd.mem
       /\ vm_last' = [op |-> "vm_pagedir_create", mutex_ok |-> mutex_ok,
                      ok |-> pd.root # 0,
                      avail_before |-> rmm_avail_total(MM),
                      avail_after |-> rmm_avail_total(pd.mm)]
  /\ UNCHANGED <<thr_vars, live, seed, last, cache, vm_state, shadow, kmem_vars>>

\* a = kmem_allocator_create(mm, min_initmem)
CreateAllocator(min_initmem, mutex_ok) ==
  /\ ~fault
  /\ ka = <<>>
  /\ \E c \in {kmem_allocator_create_mm(MM, min_initmem, mutex_ok)} :
       /\ SetMM(c.mm)
       /\ ka' = IF c.a = 0 THEN ka
                ELSE kmem_allocator_create(c.p, c.a - c.p)
       /\ klast' = [op |-> "kmem_allocator_create", mutex_ok |-> mutex_ok,
                    min_initmem |-> min_initmem, ok |-> c.a # 0,
                    avail_before |-> rmm_avail_total(MM),
                    avail_after |-> rmm_avail_total(c.mm)]
  /\ UNCHANGED <<thr_vars, live, seed, last, vm_vars, klive, krun>>

NextCreate ==
  \/ CreateTake
  \/ CreateGive
  \/ \E mutex_ok \in BOOLEAN : CreatePagedir(mutex_ok)
  \/ \E min_initmem \in {0, PAGE_SIZE}, mutex_ok \in BOOLEAN :
       CreateAllocator(min_initmem, mutex_ok)

SpecCreate == InitCreate /\ [][NextCreate]_vars

\* ------------------------------------------------------------------------
\* threads: calls into the PMM, the page directory and the allocator that run
\* concurrently, each under the mutex of its layer
\* ------------------------------------------------------------------------

\* a panic or a failed assert has ended the process
Aborted == fault \/ vm_state = "panic" \/ ka.fault # ""

\* usable span, in pages, of the PMM the threads share
ThreadPages == 4

\* a PMM over ThreadPages pages, a page directory and an allocator, all created
InitThreads ==
  LET mm0 == rmm_create(16 * PAGE_SIZE, ThreadPages)
      pd == vm_pagedir_create(mm0, <<>>, TRUE)
  IN /\ pd.root # 0
     /\ start_addr = pd.mm.start_addr
     /\ end_addr = pd.mm.end_addr
     /\ free_size = pd.mm.free_size
     /\ freelists = pd.mm.freelists
     /\ bitsets = pd.mm.bitsets
     /\ fault = pd.mm.fault
     /\ live = {}
     /\ seed = mm0.freelists
     /\ last = NoCall
     /\ pd_root = pd.root
     /\ hmem = pd.mem
     /\ cache = vm_cache_init
     /\ vm_state = "run"
     /\ shadow = <<>>
     /\ vm_last = [op |-> "none"]
     /\ ka = kmem_allocator_create(KBase, KHeapChunks * CHUNK_SIZE)
     /\ klive = {}
     /\ klast = [op |-> "none"]
     /\ krun = [phase |-> "threads"]
     /\ mutex = [m \in {"mm", "pd", "kha"} |-> 0]
     /\ thread = [t \in Threads |-> ThreadIdle]

\* thread t calls fn(arg); a block or region passed to a free is the caller's
\* no more
Call(t, fn, arg) ==
  /\ ~Aborted
  /\ thread[t].pc = "idle"
  /\ thread' = [thread EXCEPT ![t] =
                  [ThreadIdle EXCEPT
                     !.pc = CASE fn \in {"rmm_allocpages", "rmm_freepages"} -> "mm_lock"
                              [] fn = "vm_pagedir_translate" -> "pd_lock"
                              [] OTHER -> "kha_lock",
                     !.fn = fn, !.arg = arg,
                     !.mmcall = IF fn \in {"rmm_allocpages", "rmm_freepages"}
                                THEN fn ELSE "none",
                     !.ret = "caller"]]
  /\ live' = IF fn = "rmm_freepages" THEN live \ {arg} ELSE live
  /\ klive' = IF fn = "kmem_free" THEN klive \ {arg} ELSE klive
  /\ UNCHANGED <<pmm_vars, seed, last, vm_vars, ka, klast, krun, mutex>>

\* MmLock that does not wait for the mutex
MmLock_nowait(t) ==
  /\ ~Aborted
  /\ thread[t].pc = "mm_lock"
  /\ mutex' = [mutex EXCEPT !["mm"] = t]
  /\ thread' = [thread EXCEPT ![t].pc = "mm_read"]
  /\ UNCHANGED <<pmm_vars, live, seed, last, vm_vars, kmem_vars>>

\* RHMutexLock(&mm->lock) in rmm_allocpages and rmm_freepages
MmLock(t) ==
  /\ ~Aborted
  /\ thread[t].pc = "mm_lock"
  /\ mutex["mm"] = 0
  /\ mutex' = [mutex EXCEPT !["mm"] = t]
  /\ thread' = [thread EXCEPT ![t].pc = "mm_read"]
  /\ UNCHANGED <<pmm_vars, live, seed, last, vm_vars, kmem_vars>>

\* the critical section of rmm_allocpages and rmm_freepages, up to its stores:
\* the free lists, the bitsets and free_size are read and the result is worked
\* out
MmRead(t) ==
  /\ ~Aborted
  /\ thread[t].pc = "mm_read"
  /\ \E r \in {IF thread[t].mmcall = "rmm_allocpages"
               THEN rmm_allocpages(MM, IF thread[t].fn = "rmm_allocpages"
                                       THEN thread[t].arg ELSE 1)
               ELSE [ptr |-> 0, mm |-> rmm_freepages(MM, thread[t].arg.addr).mm]} :
       thread' = [thread EXCEPT ![t].pc = "mm_write", ![t].r = r]
  /\ UNCHANGED <<pmm_vars, live, seed, last, vm_vars, kmem_vars, mutex>>

\* the stores of the critical section
MmWrite(t) ==
  /\ ~Aborted
  /\ thread[t].pc = "mm_write"
  /\ SetMM(thread[t].r.mm)
  /\ thread' = [thread EXCEPT ![t].pc = "mm_unlock", ![t].r = thread[t].r.ptr]
  /\ UNCHANGED <<live, seed, last, vm_vars, kmem_vars, mutex>>

\* RHMutexUnlock(&mm->lock) and the return: to the caller of the thread, or
\* into the page-table walk that asked for the page
MmUnlock(t) ==
  /\ ~Aborted
  /\ thread[t].pc = "mm_unlock"
  /\ mutex' = [mutex EXCEPT !["mm"] = 0]
  /\ IF thread[t].ret = "caller"
     THEN /\ thread' = [thread EXCEPT ![t] = ThreadIdle]
          /\ live' = IF thread[t].fn = "rmm_allocpages" /\ thread[t].r # 0
                     THEN live \cup {[addr |-> thread[t].r, npages |-> thread[t].arg,
                                      by |-> t, use |-> "caller"]}
                     ELSE live
     ELSE /\ thread' = [thread EXCEPT ![t].pc = thread[t].ret, ![t].mmcall = "none"]
          /\ live' = live
  /\ UNCHANGED <<pmm_vars, seed, last, vm_vars, kmem_vars>>

\* PdLock that does not wait for the mutex
PdLock_nowait(t) ==
  /\ ~Aborted
  /\ thread[t].pc = "pd_lock"
  /\ mutex' = [mutex EXCEPT !["pd"] = t]
  /\ thread' = [thread EXCEPT
                  ![t].pc = "pd_walk",
                  ![t].walk = [ptab |-> pd_root,
                               masked_vfn |-> VM_VFN(thread[t].arg) - 1,
                               bits |-> 0, level |-> 1, pte_addr |-> 0]]
  /\ UNCHANGED <<pmm_vars, live, seed, last, vm_vars, kmem_vars>>

\* vm_pagedir_lookup_pte up to RHMutexLock(&pagedir->lock)
PdLock(t) ==
  /\ ~Aborted
  /\ thread[t].pc = "pd_lock"
  /\ mutex["pd"] = 0
  /\ mutex' = [mutex EXCEPT !["pd"] = t]
  /\ thread' = [thread EXCEPT
                  ![t].pc = "pd_walk",
                  ![t].walk = [ptab |-> pd_root,
                               masked_vfn |-> VM_VFN(thread[t].arg) - 1,
                               bits |-> 0, level |-> 1, pte_addr |-> 0]]
  /\ UNCHANGED <<pmm_vars, live, seed, last, vm_vars, kmem_vars>>

\* PdWalk that takes the fields of the frame number from the least significant
\* end
PdWalk_lsb(t) ==
  LET w == thread[t].walk
      pte_addr == w.ptab + getbits(w.masked_vfn, VM_PTAB_BITS - 1, VM_PTAB_BITS)
                             * PTE_SIZE
      pte == MemRead(hmem, pte_addr)
      bits2 == w.bits + VM_PTAB_BITS
      masked2 == ShiftR(w.masked_vfn, VM_PTAB_BITS)
  IN /\ ~Aborted
     /\ thread[t].pc = "pd_walk"
     /\ thread' =
          IF w.level = VM_PTAB_LEVELS
          THEN IF pte = 0
               THEN [thread EXCEPT ![t].pc = "mm_lock", ![t].mmcall = "rmm_allocpages",
                                   ![t].ret = "pd_backing", ![t].walk.pte_addr = pte_addr]
               ELSE [thread EXCEPT ![t].pc = "pd_unlock", ![t].r = pte]
          ELSE IF pte # 0
               THEN [thread EXCEPT
                       ![t].walk = [ptab |-> ShiftL(pte, PAGE_SIZE_BITS),
                                    masked_vfn |-> masked2, bits |-> bits2,
                                    level |-> w.level + 1, pte_addr |-> 0]]
               ELSE [thread EXCEPT
                       ![t].pc = "mm_lock", ![t].mmcall = "rmm_allocpages",
                       ![t].ret = "pd_table",
                       ![t].walk = [ptab |-> w.ptab, masked_vfn |-> masked2,
                                    bits |-> bits2, level |-> w.level + 1,
                                    pte_addr |-> pte_addr]]
     /\ UNCHANGED <<pmm_vars, live, seed, last, vm_vars, kmem_vars, mutex>>

\* one iteration of the for (;;) loop of vm_pagedir_lookup_pte, up to the call
\* of rmm_allocpages in vm_ptab_create or vm_pagedir_alloc_backing_page
PdWalk(t) ==
  LET w == thread[t].walk
      pte_addr == w.ptab + getbits(w.masked_vfn, VFN_BITS - (1 + w.bits), VM_PTAB_BITS)
                             * PTE_SIZE
      pte == MemRead(hmem, pte_addr)
      bits2 == w.bits + VM_PTAB_BITS
      masked2 == getbits(w.masked_vfn, VFN_BITS - (1 + bits2), VFN_BITS - bits2)
  IN /\ ~Aborted
     /\ thread[t].pc = "pd_walk"
     /\ thread' =
          IF w.level = VM_PTAB_LEVELS
          THEN IF pte = 0
               THEN [thread EXCEPT ![t].pc = "mm_lock", ![t].mmcall = "rmm_allocpages",
                                   ![t].ret = "pd_backing", ![t].walk.pte_addr = pte_addr]
               ELSE [thread EXCEPT ![t].pc = "pd_unlock", ![t].r = pte]
          ELSE IF pte # 0
               THEN [thread EXCEPT
                       ![t].walk = [ptab |-> ShiftL(pte, PAGE_SIZE_BITS),
                                    masked_vfn |-> masked2, bits |-> bits2,
                                    level |-> w.level + 1, pte_addr |-> 0]]
               ELSE [thread EXCEPT
                       ![t].pc = "mm_lock", ![t].mmcall = "rmm_allocpages",
                       ![t].ret = "pd_table",
                       ![t].walk = [ptab |-> w.ptab, masked_vfn |-> masked2,
                                    bits |-> bits2, level |-> w.level + 1,
                                    pte_addr |-> pte_addr]]
     /\ UNCHANGED <<pmm_vars, live, seed, last, vm_vars, kmem_vars, mutex>>

\* vm_ptab_create after its rmm_allocpages, and the statements of the walk that
\* install the new table
PdTable(t) ==
  LET ptab2 == thread[t].r IN
  /\ ~Aborted
  /\ thread[t].pc = "pd_table"
  /\ IF ptab2 = 0
     THEN /\ vm_state' = "panic"
          /\ UNCHANGED <<hmem, live, thread>>
     ELSE /\ vm_state' = vm_state
          /\ hmem' = MemWrite(IF VM_ZERO_PAGES THEN MemZero(hmem, ptab2, PAGE_SIZE)
                              ELSE hmem,
                              thread[t].walk.pte_addr, ShiftR(ptab2, PAGE_SIZE_BITS))
          /\ live' = live \cup {[addr |-> ptab2, npages |-> 1, by |-> 0, use |-> "table"]}
          /\ thread' = [thread EXCEPT ![t].pc = "pd_walk", ![t].walk.ptab = ptab2,
                                      ![t].ret = "caller", ![t].r = 0]
  /\ UNCHANGED <<pmm_vars, seed, last, pd_root, cache, shadow, vm_last, kmem_vars, mutex>>

\* vm_pagedir_alloc_backing_page after its rmm_allocpages
PdBacking(t) ==
  LET hpage_addr == ShiftR(thread[t].r, PAGE_SIZE_BITS) IN
  /\ ~Aborted
  /\ thread[t].pc = "pd_backing"
  /\ IF hpage_addr = 0
     THEN /\ vm_state' = "panic"
          /\ UNCHANGED <<hmem, live, thread>>
     ELSE /\ vm_state' = vm_state
          /\ hmem' = MemWrite(hmem, thread[t].walk.pte_addr, hpage_addr)
          /\ live' = live \cup {[addr |-> thread[t].r, npages |-> 1, by |-> 0,
                                 use |-> "backing"]}
          /\ thread' = [thread EXCEPT ![t].pc = "pd_unlock", ![t].ret = "caller",
                                      ![t].r = hpage_addr]
  /\ UNCHANGED <<pmm_vars, seed, last, pd_root, cache, shadow, vm_last, kmem_vars, mutex>>

\* PdUnlock that returns without releasing the mutex
PdUnlock_keep(t) ==
  /\ ~Aborted
  /\ thread[t].pc = "pd_unlock"
  /\ thread' = [thread EXCEPT ![t] = ThreadIdle]
  /\ UNCHANGED <<pmm_vars, live, seed, last, vm_vars, kmem_vars, mutex>>

\* RHMutexUnlock(&pagedir->lock) and the return of vm_pagedir_translate
PdUnlock(t) ==
  /\ ~Aborted
  /\ thread[t].pc = "pd_unlock"
  /\ mutex' = [mutex EXCEPT !["pd"] = 0]
  /\ thread' = [thread EXCEPT ![t] = ThreadIdle]
  /\ UNCHANGED <<pmm_vars, live, seed, last, vm_vars, kmem_vars>>

\* RHMutexLock(&a->lock) in kmem_alloc_aligned and kmem_free
KhaLock(t) ==
  /\ ~Aborted
  /\ thread[t].pc = "kha_lock"
  /\ mutex["kha"] = 0
  /\ mutex' = [mutex EXCEPT !["kha"] = t]
  /\ thread' = [thread EXCEPT ![t].pc = "kha_critical"]
  /\ UNCHANGED <<pmm_vars, live, seed, last, vm_vars, kmem_vars>>

\* the critical section of kmem_alloc_aligned and kmem_free
KhaCritical(t) ==
  /\ ~Aborted
  /\ thread[t].pc = "kha_critical"
  /\ IF thread[t].fn = "kmem_alloc_aligned"
     THEN \E r \in {kmem_alloc_aligned(ka, thread[t].arg[1], thread[t].arg[2])} :
            /\ ka' = r.K
            /\ thread' = [thread EXCEPT ![t].pc = "kha_unlock",
                            ![t].r = [start |-> r.start, size |-> r.size,
                                      heap |-> r.heap, by |-> t]]
     ELSE /\ ka' = kmem_free(ka, [start |-> thread[t].arg.start,
                                  size |-> thread[t].arg.size]).K
          /\ thread' = [thread EXCEPT ![t].pc = "kha_unlock"]
  /\ UNCHANGED <<pmm_vars, live, seed, last, vm_vars, klive, klast, krun, mutex>>

\* RHMutexUnlock(&a->lock) and the return
KhaUnlock(t) ==
  /\ ~Aborted
  /\ thread[t].pc = "kha_unlock"
  /\ mutex' = [mutex EXCEPT !["kha"] = 0]
  /\ klive' = IF thread[t].fn = "kmem_alloc_aligned" /\ thread[t].r.start # 0
              THEN klive \cup {thread[t].r} ELSE klive
  /\ thread' = [thread EXCEPT ![t] = ThreadIdle]
  /\ UNCHANGED <<pmm_vars, live, seed, last, vm_vars, ka, klast, krun>>

\* the steps of thread t inside a call: those that wait for a mutex, the others
ThreadLock(t) == MmLock(t) \/ PdLock(t) \/ KhaLock(t)

ThreadStep(t) ==
  \/ MmRead(t) \/ MmWrite(t) \/ MmUnlock(t)
  \/ PdWalk(t) \/ PdTable(t) \/ PdBacking(t) \/ PdUnlock(t)
  \/ KhaCritical(t) \/ KhaUnlock(t)

\* the calls of thread t: it holds at most one block of the PMM and one region
\* of the allocator at a time
ThreadCall(t) ==
  \/ /\ ~\E b \in live : b.by = t /\ b.use = "caller"
     /\ \E npages \in {1, 2} : Call(t, "rmm_allocpages", npages)
  \/ \E b \in live : b.by = t /\ b.use = "caller" /\ Call(t, "rmm_freepages", b)
  \/ Call(t, "vm_pagedir_translate", VM_ADDR_MIN)
  \/ /\ ~\E r \in klive : r.by = t
     /\ Call(t, "kmem_alloc_aligned", <<CHUNK_SIZE + 1, 1>>)
  \/ \E r \in klive : r.by = t /\ Call(t, "kmem_free", r)

NextThreads == \E t \in Threads : ThreadCall(t) \/ ThreadLock(t) \/ ThreadStep(t)

SpecThreads == InitThreads /\ [][NextThreads]_vars

\* a thread that is inside a call keeps running, and a thread that waits for a
\* mutex gets it when the mutex is released again and again
SpecThreadsFair ==
  /\ SpecThreads
  /\ \A t \in Threads : WF_vars(ThreadStep(t)) /\ SF_vars(ThreadLock(t))

\* ------------------------------------------------------------------------
\* one thread that walks the page directory, one loop iteration per step
\* ------------------------------------------------------------------------

\* a PMM over VMPages pages whose pages hold stale words, and a page directory
InitWalk ==
  LET mm0 == rmm_create(16 * PAGE_SIZE, VMPages)
      pd == vm_pagedir_create(mm0, DirtyMem(mm0.start_addr, VMPages), TRUE)
  IN /\ pd.root # 0
     /\ start_addr = pd.mm.start_addr
     /\ end_addr = pd.mm.end_addr
     /\ free_size = pd.mm.free_size
     /\ freelists = pd.mm.freelists
     /\ bitsets = pd.mm.bitsets
     /\ fault = pd.mm.fault
     /\ live = {}
     /\ seed = mm0.freelists
     /\ last = NoCall
     /\ pd_root = pd.root
     /\ hmem = pd.mem
     /\ cache = vm_cache_init
     /\ vm_state = "run"
     /\ shadow = <<>>
     /\ vm_last = [op |-> "none"]
     /\ ka = kmem_allocator_create(KBase, KHeapChunks * CHUNK_SIZE)
     /\ klive = {}
     /\ klast = [op |-> "none"]
     /\ krun = [phase |-> "walk"]
     /\ mutex = [m \in {"mm", "pd", "kha"} |-> 0]
     /\ thread = [t \in Threads |-> ThreadIdle]

\* thread 1 calls vm_pagedir_translate(pagedir, vaddr)
WalkCall(vaddr) == Call(1, "vm_pagedir_translate", vaddr)

NextWalk ==
  \/ \E vaddr \in DirAddrs : WalkCall(vaddr)
  \/ PdLock(1) \/ PdWalk(1) \/ PdTable(1) \/ PdBacking(1) \/ PdUnlock(1)
  \/ MmLock(1) \/ MmRead(1) \/ MmWrite(1) \/ MmUnlock(1)

SpecWalk == InitWalk /\ [][NextWalk]_vars

\* ------------------------------------------------------------------------
\* vocabulary of the properties
\* ------------------------------------------------------------------------

\* page numbers (relative to start_addr) of the block of 2^k pages at addr
BlockPages(addr, npages) ==
  LET first == (addr - start_addr) \div PAGE_SIZE IN first .. (first + npages - 1)

\* the entries of the free lists: <<order, position>>
FreeEntries == {e \in Orders \X (1 .. MaxPages + 1) : e[2] <= Len(freelists[e[1]])}

FreeEntryPages(e) == BlockPages(freelists[e[1]][e[2]], Pow2(e[1]))

\* pages that are on some free list
FreePageSet == UNION {FreeEntryPages(e) : e \in FreeEntries}

UsablePages == 0 .. ((end_addr - start_addr) \div PAGE_SIZE - 1)

RECURSIVE SumLive(_)
SumLive(S) ==
  IF S = {} THEN 0
  ELSE LET b == CHOOSE x \in S : TRUE IN b.npages + SumLive(S \ {b})

RECURSIVE SumFree(_)
SumFree(k) ==
  IF k > MAX_ORDER THEN 0 ELSE Pow2(k) * Len(freelists[k]) + SumFree(k + 1)

\* TRUE when some free list of an order in k..MAX_ORDER holds a block
SomeFreeFrom(k) == \E j \in Orders : j >= k /\ freelists[j] # <<>>

\* no assert of the PMM code fails and no stale list node is unlinked
NoFault == ~fault

\* ------------------------------------------------------------------------
\* C1 -- buddy balance: whenever every block returned by rmm_allocpages has
\* been freed again, each per-order free list holds exactly the blocks that
\* rmm_create seeded (for a span of any size, several top-order blocks
\* included), and rmm_allocpages(n) returns the address it returned on the
\* freshly created PMM.
\* ------------------------------------------------------------------------
C1_BuddyBalance ==
  live = {} =>
    /\ \A k \in Orders :
         /\ Range(freelists[k]) = Range(seed[k])
         /\ Len(freelists[k]) = Len(seed[k])
    /\ \A n \in AllocSizes :
         rmm_allocpages(MM, n).ptr = rmm_allocpages([MM EXCEPT !.freelists = seed], n).ptr

\* ------------------------------------------------------------------------
\* C2 -- every page of the usable range is covered by exactly one block, and
\* that block is either one entry of one free list or one live allocation.
\* ------------------------------------------------------------------------
C2_PageCoveredOnce ==
  \A p \in UsablePages :
    Cardinality({e \in FreeEntries : p \in FreeEntryPages(e)})
      + Cardinality({b \in live : p \in BlockPages(b.addr, b.npages)}) = 1

\* ------------------------------------------------------------------------
\* C3 -- free_size is PAGE_SIZE times the sum over the orders k of 2^k times
\* the length of the order-k free list.
\* ------------------------------------------------------------------------
C3_FreeSizeIsSumOfLists == free_size = PAGE_SIZE * SumFree(0)

\* ------------------------------------------------------------------------
\* C4 -- rmm_freepages of a live block of n pages deduces order log2(n),
\* adds exactly n*PAGE_SIZE to free_size and makes exactly that block's n
\* pages free: the free pages afterwards are the free pages before plus the
\* pages of the block.
\* ------------------------------------------------------------------------
C4_FreeReleasesExactlyTheBlock ==
  [][last'.op = "free" =>
       /\ last'.order = OrderOf(last'.n)
       /\ free_size' = free_size + last'.n * PAGE_SIZE
       /\ FreePageSet' = FreePageSet \cup BlockPages(last'.ptr, last'.n)]_vars

\* the part of C4 that is about the deduced order and free_size only
C4_OrderDeduced ==
  [][last'.op = "free" =>
       /\ last'.order = OrderOf(last'.n)
       /\ free_size' = free_size + last'.n * PAGE_SIZE]_vars

\* ------------------------------------------------------------------------
\* C5 -- every non-null address returned by rmm_allocpages(mm, n) is a
\* multiple of n*PAGE_SIZE, whatever address the host region starts at.
\* ------------------------------------------------------------------------
C5_ReturnedAddressAligned ==
  (last.op = "alloc" /\ last.ptr # 0) => last.ptr % (last.n * PAGE_SIZE) = 0

\* the alignment that the code gives: relative to start_addr
C5_OffsetAligned ==
  (last.op = "alloc" /\ last.ptr # 0) =>
     (last.ptr - start_addr) % (last.n * PAGE_SIZE) = 0

\* ------------------------------------------------------------------------
\* C6 -- rmm_allocpages(mm, n) returns null exactly when n is 0 or no free
\* list of an order in log2(n)..MAX_ORDER holds a block, and a call that
\* returns null leaves the free lists, the use bitsets and free_size as
\* they were.
\* ------------------------------------------------------------------------
C6_NullExactlyWhenNoBlock ==
  [][last'.op = "alloc" =>
       /\ (last'.ptr = 0) <=> (last'.n = 0 \/ ~SomeFreeFrom(OrderOf(last'.n)))
       /\ (last'.ptr = 0) =>
            (freelists' = freelists /\ bitsets' = bitsets /\ free_size' = free_size)]_vars

\* a call for a non-zero page count has returned null while blocks of lower
\* orders were free
C6_Witness ==
  /\ last.op = "alloc" /\ last.ptr = 0 /\ last.n > 0 /\ last.n <= Pow2(MAX_ORDER)
  /\ free_size > 0

\* ------------------------------------------------------------------------
\* C7 -- buddy address law: for every live block of order k at offset a the
\* order-k use bit of a is set, and the order-k use bit of the buddy
\* a XOR (PAGE_SIZE << k) is clear if and only if the buddy is a whole free
\* block on the order-k free list.
\* ------------------------------------------------------------------------
C7_BuddyLaw ==
  \A b \in live :
    LET k == OrderOf(b.npages)
        size == PAGE_SIZE * Pow2(k)
        a == b.addr - start_addr
        buddy_addr == BitXor(a, size)
    IN /\ bit_get(bitsets[k], a \div size)
       /\ (~bit_get(bitsets[k], buddy_addr \div size))
            <=> ((buddy_addr + start_addr) \in Range(freelists[k]))

\* a live block whose buddy is free, and a live block whose buddy is live
C7_Witness ==
  /\ \E b \in live :
       BitXor(b.addr - start_addr, PAGE_SIZE * b.npages) + start_addr
         \in Range(freelists[OrderOf(b.npages)])
  /\ \E b, c \in live :
       /\ b.npages = c.npages
       /\ c.addr - start_addr = BitXor(b.addr - start_addr, PAGE_SIZE * b.npages)

\* ------------------------------------------------------------------------
\* C8 -- freeing every block obtained from rmm_allocpages exactly once, in
\* any order, brings rmm_avail_total back to its value before the
\* allocations: in every state rmm_avail_total is rmm_cap less the pages of
\* the blocks that are live.
\* ------------------------------------------------------------------------
C8_AvailTotalRestored == rmm_avail_total(MM) = rmm_cap(MM) - SumLive(live)

\* every allocated block has been freed again, the last one a block of
\* several pages, and rmm_avail_total is back at the capacity
C8_Witness ==
  /\ last.op = "free" /\ live = {} /\ last.n > 1
  /\ rmm_avail_total(MM) = rmm_cap(MM)

\* ------------------------------------------------------------------------
\* C9 -- rmm_allocpages_min(mm, &req, min), min a power of two not above
\* CEIL_POW2(req), returns a block of c pages for the largest power of two c
\* in min..CEIL_POW2(req) for which rmm_allocpages(c) succeeds and writes c
\* to *req; when there is no such c it returns null and leaves the PMM and
\* *req unchanged.
\* ------------------------------------------------------------------------
C9_AllocMinLargestFit ==
  [][last'.op = "allocmin" =>
       LET lo == IF last'.min = 0 THEN 1 ELSE last'.min
           fits == {c \in 1 .. CEIL_POW2(last'.n) :
                      /\ IS_POW2(c) /\ lo <= c
                      /\ rmm_allocpages(MM, c).ptr # 0}
       IN IF fits # {}
          THEN LET c == CHOOSE x \in fits : \A y \in fits : y <= x
                   r == rmm_allocpages(MM, c)
               IN /\ last'.ptr = r.ptr
                  /\ last'.out = c
                  /\ freelists' = r.mm.freelists
                  /\ bitsets' = r.mm.bitsets
                  /\ free_size' = free_size - c * PAGE_SIZE
          ELSE /\ last'.ptr = 0
               /\ last'.out = last'.n
               /\ freelists' = freelists /\ bitsets' = bitsets
               /\ free_size' = free_size]_vars

\* a request was served with fewer pages than CEIL_POW2(req), above min
C9_Witness ==
  /\ last.op = "allocmin" /\ last.ptr # 0
  /\ last.out < CEIL_POW2(last.n) /\ last.out > last.min

\* a request failed at every size down to min
C9_WitnessNull ==
  /\ last.op = "allocmin" /\ last.ptr = 0 /\ last.min < CEIL_POW2(last.n)
  /\ free_size > 0

\* ------------------------------------------------------------------------
\* C10 -- store/load round trip: VM_STORE(T, v, x) followed by VM_LOADs of
\* v returns x every time, whether the accesses hit the translation cache or
\* go through the miss handler: every byte that a load returns is the byte
\* last stored to that guest address.
\* ------------------------------------------------------------------------
C10_StoreLoadRoundTrip ==
  vm_last.op = "load" =>
    \A i \in 1 .. vm_last.size :
      (vm_last.vaddr + i - 1) \in DOMAIN shadow =>
         vm_last.val[i] = shadow[vm_last.vaddr + i - 1]

\* a load that went through the miss handler has returned a stored word
C10_Witness ==
  /\ vm_last.op = "load" /\ ~vm_last.hit /\ vm_last.size = 4
  /\ \A i \in 1 .. vm_last.size : (vm_last.vaddr + i - 1) \in DOMAIN shadow

\* a load that hit the cache has returned a stored word
C10_WitnessHit ==
  /\ vm_last.op = "load" /\ vm_last.hit /\ vm_last.size = 4
  /\ \A i \in 1 .. vm_last.size : (vm_last.vaddr + i - 1) \in DOMAIN shadow

\* ------------------------------------------------------------------------
\* C11 -- cache correctness: right after _vm_cache_miss has returned
\* successfully for vaddr v and an access of alignment A, vm_cache_lookup(v, A)
\* is a hit and returns the host address vm_pagedir_translate(v), and that
\* translation allocates nothing.
\* ------------------------------------------------------------------------
C11_LookupAfterMissIsTranslate ==
  (vm_last.op \in {"load", "store"} /\ ~vm_last.hit) =>
    LET t == vm_pagedir_translate(MM, hmem, pd_root, vm_last.vaddr) IN
    /\ ~t.panic /\ t.mm = MM /\ t.haddr # 0
    /\ vm_cache_lookup(cache, vm_last.vaddr, vm_last.size) = t.haddr

\* the miss handler has installed a page over an entry that held another page
C11_Witness ==
  /\ vm_last.op \in {"load", "store"} /\ ~vm_last.hit
  /\ vm_last.vaddr = VM_ADDR_MIN + VM_CACHE_LEN * PAGE_SIZE + 4
  /\ VM_ADDR_MIN \in DOMAIN shadow

\* ------------------------------------------------------------------------
\* C15 -- an access that reaches _vm_cache_miss with vaddr outside
\* VM_ADDR_MIN..VM_ADDR_MAX ends in the out-of-range fault, an in-range one
\* that is not aligned to the access size ends in the misalignment fault, and
\* either fault leaves the cache, the PMM and the host memory as they were
\* (no walk, no cache entry, no page); an access that the miss handler
\* serves is in range and aligned.
\* ------------------------------------------------------------------------
C15_FaultBeforeWalk ==
  [][LET v == vm_last'.vaddr
         inrange == VM_ADDR_MIN <= v /\ v <= VM_ADDR_MAX
         aligned == v % vm_last'.size = 0
         untouched == /\ cache' = cache /\ hmem' = hmem /\ shadow' = shadow
                      /\ UNCHANGED pmm_vars
     IN /\ (vm_last'.op \in {"load", "store"} /\ ~vm_last'.hit)
             => (inrange /\ aligned)
        /\ (vm_last'.op = "panic" /\ ~inrange)
             => (vm_last'.msg = "out of range" /\ untouched)
        /\ (vm_last'.op = "panic" /\ inrange /\ ~aligned)
             => (vm_last'.msg = "misaligned" /\ untouched)
        /\ (vm_last'.op = "panic" /\ inrange /\ aligned)
             => vm_last'.msg = "no memory"]_vars

\* a misaligned access below VM_ADDR_MIN has ended in the out-of-range fault
C15_Witness ==
  /\ vm_last.op = "panic" /\ vm_last.msg = "out of range"
  /\ vm_last.vaddr % vm_last.size # 0

\* a misaligned access to a page that is mapped has ended in the misalignment
\* fault
C15_WitnessMisaligned ==
  /\ vm_last.op = "panic" /\ vm_last.msg = "misaligned"
  /\ VM_PAGE_ADDR(vm_last.vaddr) \in DOMAIN shadow

\* ------------------------------------------------------------------------
\* C16 -- after vm_pagedir_dispose every page that the directory took from
\* the PMM is back: rmm_avail_total is what it was just before the root
\* table was allocated.
\* ------------------------------------------------------------------------
C16_DisposeReturnsAllPages ==
  vm_state = "disposed" =>
    rmm_avail_total(MM)
      = rmm_avail_total(rmm_allocpages(rmm_create(16 * PAGE_SIZE, VMPages), 1).mm)

\* ------------------------------------------------------------------------
\* C12 -- for every cache content made by vm_cache_init and vm_cache_add:
\* vm_cache_lookup(v, A) returns 0 when v is not a multiple of A (A a power
\* of two below PAGE_SIZE), also when the page of v is cached; and it returns
\* the host address (not 0) when v is a multiple of A and the entry of v has
\* the page of v as its tag.
\* ------------------------------------------------------------------------
C12_MisalignedLookupMisses ==
  \A v \in Probes, A \in AccessAlignments \cup {PAGE_SIZE \div 2} :
    LET entry == cache[BitAnd(VM_VFN(v), VM_CACHE_INDEX_VFN_MASK)] IN
    /\ v % A # 0 => vm_cache_lookup(cache, v, A) = 0
    /\ (v % A = 0 /\ entry.tag = VM_PAGE_ADDR(v)) =>
         /\ vm_cache_lookup(cache, v, A) = Wrap(entry.haddr_diff + v)
         /\ vm_cache_lookup(cache, v, A) # 0

\* both entries of the cache hold a page, one of them the highest guest page
C12_Witness ==
  /\ \A i \in DOMAIN cache : cache[i].tag # U64 - 1
  /\ \E i \in DOMAIN cache : cache[i].tag = U64 - PAGE_SIZE

\* ------------------------------------------------------------------------
\* C13 -- after vm_cache_init or vm_cache_invalidate, from any cache content,
\* vm_cache_lookup returns 0 for every address (the all-ones address
\* included) and every access alignment, and the cache is the same whether
\* it was invalidated once or twice.
\* ------------------------------------------------------------------------
C13_InvalidatedCacheMisses ==
  vm_last.op \in {"none", "invalidate"} =>
    /\ cache = vm_cache_invalidate
    /\ \A v \in Probes, A \in AccessAlignments : vm_cache_lookup(cache, v, A) = 0

\* the cache has been invalidated
C13_Witness == vm_last.op = "invalidate" /\ vm_state = "run" /\ shadow = <<>>

\* ------------------------------------------------------------------------
\* C14 -- after vm_cache_add(vp, hp), vp and hp page addresses,
\* vm_cache_lookup(v, 1) returns hp + (v - vp) for every v of page vp; after
\* vm_cache_invalidate_one(v), vm_cache_lookup(v, 1) returns 0 and the entries
\* at the other cache indices are as before.
\* ------------------------------------------------------------------------
C14_AddLookupInvalidateOne ==
  [][/\ vm_last'.op = "add" =>
          \A off \in PageOffsets :
             vm_cache_lookup(cache', vm_last'.vaddr + off, 1)
               = Wrap(vm_last'.hpaddr + off)
     /\ vm_last'.op = "invalidate_one" =>
          /\ vm_cache_lookup(cache', vm_last'.vaddr, 1) = 0
          /\ \A i \in DOMAIN cache :
               i # BitAnd(VM_VFN(vm_last'.vaddr), VM_CACHE_INDEX_VFN_MASK)
                 => cache'[i] = cache[i]]_vars

\* an entry that was added has been invalidated while the other entry holds
\* a page
C14_Witness ==
  /\ vm_last.op = "invalidate_one"
  /\ \E i \in DOMAIN cache : cache[i].tag # U64 - 1
  /\ \E i \in DOMAIN cache : cache[i].tag = U64 - 1

\* ------------------------------------------------------------------------
\* C17 -- for every size > 0 and alignment, r = kmem_alloc_aligned(a, size,
\* alignment) followed at once by kmem_free(a, r) leaves kmem_avail(a) at the
\* value it had before the allocation.
\* ------------------------------------------------------------------------
C17_AllocFreeRestoresAvail ==
  (klast.op = "free" /\ klast.roundtrip /\ klast.size > 0 /\ ka.fault = "")
    => kmem_avail(ka) = klast.avail0

\* ------------------------------------------------------------------------
\* C18 -- every non-null region kmem_alloc_aligned(a, size, alignment) returns
\* starts at a multiple of alignment and has region.size >= size; a region of
\* the sub-heap has a size that is a multiple of CHUNK_SIZE.
\* ------------------------------------------------------------------------
C18_RegionAlignedAndLargeEnough ==
  (klast.op = "alloc" /\ klast.start # 0) =>
    /\ klast.start % klast.alignment = 0
    /\ klast.rsize >= klast.size
    /\ klast.heap = SLABHEAP_COUNT => klast.rsize % CHUNK_SIZE = 0

\* ------------------------------------------------------------------------
\* C19 -- kmem_free(a, r) releases r into the heap that served it: the slab
\* heap i puts r on the recycle list of its block, the sub-heap clears the
\* chunks of r.
\* ------------------------------------------------------------------------
C19_FreeIntoServingHeap ==
  (klast.op = "free" /\ ka.fault = "") =>
    /\ klast.heap = klast.served
    /\ klast.served = SLABHEAP_COUNT =>
         (klast.start - ka.heap.chunks) \div CHUNK_SIZE \notin ka.heap.chunk_use
    /\ klast.served < SLABHEAP_COUNT =>
         KLoad(ka, (klast.start - (klast.start % SLABHEAP_BLOCK_SIZE)) + OFF_recycle)
           = klast.start

\* ------------------------------------------------------------------------
\* C20 -- for every slab heap and every n: after n slabheap_alloc and the n
\* slabheap_free of those chunks in any order, every block of the slab heap is
\* on its usable list and none is on its full list, and the next n
\* slabheap_alloc return chunks of the first n.
\* ------------------------------------------------------------------------
C20_SlabRecycle ==
  /\ (krun.phase = "realloc" /\ krun.count = 0) =>
       /\ ka.fault = ""
       /\ ka.slab[krun.class].full = 0
       /\ krun.blocks \subseteq
            Range(BlockList(ka, ka.slab[krun.class].usable, KWords(ka), <<>>))
  /\ krun.phase \in {"realloc", "done"} => krun.got \subseteq krun.orig

\* C20 for the runs that do not fill a block
C20_SlabRecycleBelowCap ==
  (krun.phase \in {"realloc", "done"}
     /\ krun.n < (SLABHEAP_BLOCK_SIZE \div ka.slab[krun.class].size)) => C20_SlabRecycle

\* ------------------------------------------------------------------------
\* C21 -- in every state of a slab heap, each of its blocks is on exactly one
\* of the usable and the full list, exactly once, and it is on the full list
\* if and only if its recycle list is empty and len = cap.
\* ------------------------------------------------------------------------
C21_BlockOnOneList ==
  (krun.phase \in {"alloc", "free", "realloc", "done"} /\ ka.fault = "") =>
    LET usable == BlockList(ka, ka.slab[krun.class].usable, KWords(ka), <<>>)
        full == BlockList(ka, ka.slab[krun.class].full, KWords(ka), <<>>)
        times(list, b) == Cardinality({k \in DOMAIN list : list[k] = b})
    IN \A b \in krun.blocks :
         /\ times(usable, b) + times(full, b) = 1
         /\ b \in Range(full) <=>
              /\ KLoad(ka, b + OFF_recycle) = 0
              /\ HiHalf(KLoad(ka, b + OFF_cap)) = LoHalf(KLoad(ka, b + OFF_cap))

\* C21 -- slabheap_free of a chunk of a full block moves that block, and only
\* that block, from the full list to the usable list.  The step is a
\* slabheap_free in a state where every block is on one list, and the chunk
\* lies behind the header of the block that SLABHEAP_BLOCK_MASK gives.
C21_FreeMovesOnlyThatBlock ==
  [][LET i == krun.class
         ptr == klast'.start
         block == ptr - (ptr % SLABHEAP_BLOCK_SIZE)
         usable == Range(BlockList(ka, ka.slab[i].usable, KWords(ka), <<>>))
         full == Range(BlockList(ka, ka.slab[i].full, KWords(ka), <<>>))
         usable2 == Range(BlockList(ka', ka'.slab[i].usable, KWords(ka'), <<>>))
         full2 == Range(BlockList(ka', ka'.slab[i].full, KWords(ka'), <<>>))
     IN (/\ krun.phase = "free"
         /\ klast'.op = "slabheap_free"
         /\ ka'.fault = ""
         /\ C21_BlockOnOneList
         /\ block \in krun.blocks
         /\ block \in full
         /\ ptr >= ALIGN2(block + sizeof_slabblock_t, ka.slab[i].size))
        => /\ block \in usable2 /\ block \notin full2
           /\ \A b \in krun.blocks \ {block} :
                /\ b \in usable2 <=> b \in usable
                /\ b \in full2 <=> b \in full]_vars

\* ------------------------------------------------------------------------
\* C22 -- for every size > 0, kmem_alloc_size(size) is the size of the region
\* that a successful kmem_alloc(a, size), the request of alignment 1, returns.
\* ------------------------------------------------------------------------
C22_AllocSizeIsRegionSize ==
  (klast.op = "alloc" /\ klast.alignment = 1 /\ klast.size > 0 /\ klast.start # 0)
    => kmem_alloc_size(klast.size) = klast.rsize

\* ------------------------------------------------------------------------
\* C23 -- when no slab block and no sub-heap can satisfy a request,
\* kmem_alloc_aligned returns the null region to its caller and leaves the
\* sub-heap's bitset and chunk_len and the slab lists as they were.
\* ------------------------------------------------------------------------
C23_ExhaustionReturnsNull ==
  [][(krun.phase = "client" /\ klast'.op = "alloc" /\ klast'.start = 0)
       => /\ ka'.fault = ""
          /\ ka'.heap = ka.heap
          /\ ka'.slab = ka.slab]_vars

C28_ConcurrentBlocksDisjoint ==
  /\ \A b, c \in live :
       b # c => BlockPages(b.addr, b.npages) \cap BlockPages(c.addr, c.npages) = {}
  /\ \A b \in live :
       b.addr >= start_addr /\ b.addr + b.npages * PAGE_SIZE <= end_addr
  /\ free_size <= end_addr - start_addr

\* a thread holds a block and waits for the PMM mutex inside a page-table
\* walk, while the other thread is inside the critical section of an
\* rmm_allocpages that has found a block
C28_Witness ==
  \E t, u \in Threads :
    /\ t # u
    /\ \E b \in live : b.by = t /\ b.use = "caller"
    /\ thread[t].pc = "mm_lock" /\ mutex["pd"] = t
    /\ mutex["mm"] = u
    /\ thread[u].fn = "rmm_allocpages" /\ thread[u].pc = "mm_unlock"
    /\ thread[u].r # 0

\* C25: when vm_pagedir_create or kmem_allocator_create fails, whether the
\* initialisation of the mutex failed or the PMM could not supply the pages,
\* NULL is returned and rmm_avail_total is what it was before the call
C25_CreateFailureRestoresAvail ==
  /\ (vm_last.op = "vm_pagedir_create" /\ ~vm_last.ok)
       => vm_last.avail_after = vm_last.avail_before
  /\ (klast.op = "kmem_allocator_create" /\ ~klast.ok)
       => klast.avail_after = klast.avail_before

\* C26: every chunk that slabheap_alloc hands out from a block by the bump
\* index (none has been freed yet) lies entirely inside the
\* SLABHEAP_BLOCK_SIZE bytes of that block, so that masking the chunk pointer
\* as slabheap_free does yields the block that handed it out
C26_ChunkInsideItsBlock ==
  [][(krun.phase = "alloc" /\ klast'.op = "slabheap_alloc" /\ klast'.start # 0
        /\ ka'.fault = "")
       => LET i == krun.class
              size == ka.slab[i].size
              ptr == klast'.start
              \* the block the chunk was taken from: the head of the usable
              \* list, or the block slabheap_grow has just made
              block == IF ka.slab[i].usable # 0 THEN ka.slab[i].usable
                       ELSE IF ka'.slab[i].usable # 0 THEN ka'.slab[i].usable
                       ELSE ka'.slab[i].full
          IN /\ block <= ptr
             /\ ptr + size <= block + SLABHEAP_BLOCK_SIZE
             /\ ptr - (ptr % SLABHEAP_BLOCK_SIZE) = block]_vars

\* C27: the byte ranges [start, start + size) of any two live regions that
\* kmem_alloc_aligned returned, slab-served or sub-heap-served, are disjoint,
\* and no live region overlaps the header of a slab block or the chunk-use
\* bitset of the sub-heap
C27_LiveRegionsDisjoint ==
  ka.fault = ""
    => LET Disjoint(a, an, b, bn) == a + an <= b \/ b + bn <= a
           Lists(i) == BlockList(ka, ka.slab[i].usable, KHeapChunks, <<>>)
                         \o BlockList(ka, ka.slab[i].full, KHeapChunks, <<>>)
           Headers == UNION {{b \in Range(Lists(i)) : b > 0} :
                               i \in 0 .. SLABHEAP_COUNT - 1}
           bitset == ka.heap.chunks + ka.heap.chunk_cap * CHUNK_SIZE
       IN /\ \A r1, r2 \in klive :
               r1 # r2 => Disjoint(r1.start, r1.size, r2.start, r2.size)
          /\ \A r \in klive, b \in Headers :
               Disjoint(r.start, r.size, b, sizeof_slabblock_t)
          /\ \A r \in klive :
               Disjoint(r.start, r.size, bitset, (ka.heap.chunk_cap + 7) \div 8)

\* C30: right after a successful rmm_create the seeded free blocks are
\* pairwise disjoint and tile [start_addr, end_addr) exactly, in descending
\* size; each has an order of at most MAX_ORDER and starts at an offset from
\* start_addr that is a multiple of its own size; free_size is
\* end_addr - start_addr, so rmm_avail_total equals rmm_cap
C30_SeedTilesRegion ==
  (last.op = "rmm_create" /\ last.out = 1)
    => LET Seeded == UNION {{<<k, a>> : a \in Range(freelists[k])} :
                              k \in DOMAIN freelists}
           Pages(b) == BlockPages(b[2], Pow2(b[1]))
       IN /\ DOMAIN freelists = 0 .. MAX_ORDER
          /\ \A k \in DOMAIN freelists :
               Cardinality(Range(freelists[k])) = Len(freelists[k])
          /\ \A b1, b2 \in Seeded : b1 # b2 => Pages(b1) \cap Pages(b2) = {}
          /\ UNION {Pages(b) : b \in Seeded}
               = 0 .. ((end_addr - start_addr) \div PAGE_SIZE) - 1
          /\ \A b \in Seeded : (b[2] - start_addr) % (PAGE_SIZE * Pow2(b[1])) = 0
          /\ \A b1, b2 \in Seeded : b1[2] < b2[2] => b1[1] >= b2[1]
          /\ start_addr % PAGE_SIZE = 0
          /\ end_addr > start_addr
          /\ (end_addr - start_addr) % PAGE_SIZE = 0
          /\ free_size = end_addr - start_addr
          /\ rmm_avail_total(MM) = rmm_cap(MM)

\* rmm_create has seeded several blocks of the top order and smaller ones
\* behind them, over a host region whose size is no multiple of the page size
C30_Witness ==
  /\ last.op = "rmm_create" /\ last.out = 1
  /\ last.n % PAGE_SIZE # 0
  /\ Len(freelists[MAX_ORDER]) >= 2
  /\ \E k \in 0 .. MAX_ORDER - 1 : Len(freelists[k]) >= 1

\* C29: a successful rmm_allocpages of 2^k pages changes use bits at order k
\* only: afterwards the bitsets differ from those before the call in the
\* order-k bit of the returned block and in nothing else, also when the block
\* was made by splitting a free block of a higher order
C29_AllocSetsOnlyItsOrderBit ==
  [][(last'.op = "alloc" /\ last'.ptr # 0 /\ ~fault')
       => LET k == OrderOf(last'.n)
              bit == (last'.ptr - start_addr) \div (PAGE_SIZE * Pow2(k))
          IN \A j \in Orders :
               bitsets'[j] = IF j = k THEN bit_set(bitsets[j], bit) ELSE bitsets[j]]_vars

\* C31: when several threads translate addresses of the same guest page that
\* is not mapped yet, through one page directory, the PMM supplies one backing
\* page and at most one page-table node per missing level, and every thread
\* whose walk ends gets the host page frame of that one backing page
C31_OneBackingPagePerGuestPage ==
  /\ Cardinality({b \in live : b.use = "backing"}) <= 1
  /\ Cardinality({b \in live : b.use = "table"}) <= VM_PTAB_LEVELS - 1
  /\ \A t \in Threads :
       thread[t].pc = "pd_unlock"
         => \E b \in live :
              b.use = "backing" /\ ShiftL(thread[t].r, PAGE_SIZE_BITS) = b.addr

\* a thread ends a walk in which it has allocated nothing, on the page that is
\* mapped already, while the other thread waits to translate the same address
C31_Witness ==
  \E t, u \in Threads :
    /\ t # u
    /\ thread[t].pc = "pd_unlock" /\ thread[t].r # 0
    /\ thread[t].walk.pte_addr = 0
    /\ thread[u].pc = "pd_lock" /\ thread[u].arg = thread[t].arg
    /\ \E b \in live : b.use = "backing"

\* C32: the first translation of an address of a guest page takes one backing
\* page and at most VM_PTAB_LEVELS - 1 page-table nodes from the PMM; every
\* later vm_pagedir_translate or walk of the miss handler for an address of
\* that page returns the host page of the first one and leaves rmm_avail_total
\* as it is
C32_FirstTouchAllocatesThenStable ==
  (vm_last.op \in {"translate", "miss"} /\ ~vm_last.panic)
    => LET taken == vm_last.avail_before - vm_last.avail_after IN
       /\ VM_PAGE_ADDR(vm_last.vaddr) \in DOMAIN shadow
       /\ vm_last.haddr
            = shadow[VM_PAGE_ADDR(vm_last.vaddr)] + VM_ADDR_OFFSET(vm_last.vaddr)
       /\ vm_last.first => 1 <= taken /\ taken <= VM_PTAB_LEVELS
       /\ ~vm_last.first => taken = 0

\* a later walk of a page whose first translation allocated a table and the
\* backing page, with another page translated in between
C32_Witness ==
  /\ vm_last.op = "miss" /\ ~vm_last.panic /\ ~vm_last.first
  /\ vm_last.vaddr = VM_ADDR_MIN + 8
  /\ Cardinality(DOMAIN shadow) >= 2

\* the addresses of the PTEs of the table at ptab
PteSlots(ptab) == {ptab + i * PTE_SIZE : i \in 0 .. VM_PTAB_LEN - 1}

\* the tables of a level: the root at level 1, below it the pages that the
\* non-zero PTEs of the level above reference
RECURSIVE TablesAt(_)
TablesAt(level) ==
  IF level = 1 THEN {pd_root}
  ELSE {ShiftL(MemRead(hmem, a), PAGE_SIZE_BITS) :
          a \in {x \in UNION {PteSlots(t) : t \in TablesAt(level - 1)} :
                   MemRead(hmem, x) # 0}}

\* the non-zero PTEs of the interior levels and of the leaf level
InteriorPtes ==
  {a \in UNION {PteSlots(t) : t \in UNION {TablesAt(k) : k \in 1 .. VM_PTAB_LEVELS - 1}} :
     MemRead(hmem, a) # 0}

LeafPtes ==
  {a \in UNION {PteSlots(t) : t \in TablesAt(VM_PTAB_LEVELS)} : MemRead(hmem, a) # 0}

\* C33: in every state of the page directory each host page that a non-zero
\* PTE references is referenced by that PTE only; the PTEs of the interior
\* levels reference page-table nodes and those of the leaf level backing
\* pages, all of them pages that the PMM has handed out; no PTE references the
\* root; two guest pages never translate to the same host page
C33_PteReferencesUnique ==
  LET Page(a) == ShiftL(MemRead(hmem, a), PAGE_SIZE_BITS)
      Nodes == UNION {TablesAt(k) : k \in 1 .. VM_PTAB_LEVELS}
  IN /\ \A a1, a2 \in InteriorPtes \cup LeafPtes : a1 # a2 => Page(a1) # Page(a2)
     /\ \A a \in InteriorPtes \cup LeafPtes :
          /\ Page(a) # pd_root
          /\ start_addr <= Page(a) /\ Page(a) < end_addr
          /\ BlockPages(Page(a), 1) \cap FreePageSet = {}
     /\ \A a \in LeafPtes : Page(a) \notin Nodes
     /\ \A p1, p2 \in DOMAIN shadow : p1 # p2 => shadow[p1] # shadow[p2]
     /\ \A p \in DOMAIN shadow : \E a \in LeafPtes : Page(a) = shadow[p]

\* two leaf tables and a backing page under each
C33_Witness ==
  /\ Cardinality(TablesAt(VM_PTAB_LEVELS)) >= 2
  /\ Cardinality(LeafPtes) >= 2
  /\ vm_state = "run"

VfnField(x, i) == (x \div Pow2(VFN_BITS - i * VM_PTAB_BITS)) % VM_PTAB_LEN

\* the page-table slot that a walk of vaddr uses at the level it stands at
WalkSlot(w, vaddr) == w.ptab + VfnField(VM_VFN(vaddr) - 1, w.level) * PTE_SIZE

\* ------------------------------------------------------------------------
\* C35 -- at level i (1 .. VM_PTAB_LEVELS) the walk of vm_pagedir_lookup_pte
\* reads the slot whose index is the i-th most significant VM_PTAB_BITS-bit
\* field of VFN(vaddr) - 1; the index is below VM_PTAB_LEN, it is 0 at every
\* level for VM_ADDR_MIN, and two different frame numbers differ in the index
\* of at least one level.
\* ------------------------------------------------------------------------
C35_WalkIndexIsVfnField ==
  [][\A t \in Threads :
       (thread[t].pc = "pd_walk" /\ thread'[t] # thread[t]) =>
         LET w == thread[t].walk
             vaddr == thread[t].arg
             index == VfnField(VM_VFN(vaddr) - 1, w.level)
             slot == WalkSlot(w, vaddr)
         IN /\ w.level \in 1 .. VM_PTAB_LEVELS
            /\ index < VM_PTAB_LEN
            /\ VM_PAGE_ADDR(vaddr) = VM_ADDR_MIN => index = 0
            /\ slot < w.ptab + PAGE_SIZE
            /\ CASE thread'[t].pc = "pd_walk" ->
                      /\ MemRead(hmem, slot) # 0
                      /\ thread'[t].walk.ptab = ShiftL(MemRead(hmem, slot), PAGE_SIZE_BITS)
                      /\ thread'[t].walk.level = w.level + 1
                 [] thread'[t].pc = "pd_unlock" ->
                      /\ w.level = VM_PTAB_LEVELS
                      /\ thread'[t].r = MemRead(hmem, slot)
                 [] OTHER ->
                      /\ MemRead(hmem, slot) = 0
                      /\ thread'[t].walk.pte_addr = slot
            /\ \A v \in DirAddrs :
                 VM_VFN(v) # VM_VFN(vaddr) =>
                   \E i \in 1 .. VM_PTAB_LEVELS :
                     VfnField(VM_VFN(v) - 1, i) # VfnField(VM_VFN(vaddr) - 1, i)]_vars

\* the walk of the highest guest page stands at the leaf level, in a table
\* below the root, and finds the slot of its last field filled
C35_Witness ==
  /\ thread[1].pc = "pd_walk"
  /\ VM_VFN(thread[1].arg) = Pow2(VFN_BITS) - 1
  /\ thread[1].walk.level = VM_PTAB_LEVELS
  /\ thread[1].walk.ptab # pd_root
  /\ VfnField(VM_VFN(thread[1].arg) - 1, VM_PTAB_LEVELS) = VM_PTAB_LEN - 2
  /\ MemRead(hmem, WalkSlot(thread[1].walk, thread[1].arg)) # 0

\* ------------------------------------------------------------------------
\* C36 -- for every size >= HEAP_MIN_SIZE heap_init ends with a chunk_cap of
\* at least 1 that was never taken below zero, and the chunks and the bitset
\* of one bit per chunk fit into the memory:
\* chunk_cap * CHUNK_SIZE + ceil(chunk_cap / 8) <= size.
\* ------------------------------------------------------------------------
C36_ChunksAndBitsetFit ==
  klast.op = "heap_init" =>
    /\ klast.chunk_cap >= 1
    /\ klast.chunk_cap <= klast.size \div CHUNK_SIZE - 1
    /\ klast.chunk_cap * CHUNK_SIZE + (klast.chunk_cap + 7) \div 8 <= klast.size

\* ------------------------------------------------------------------------
\* C37 -- every call of rmm_allocpages_min returns, whatever req_npages and
\* min_npages are (min_npages not a power of two or above CEIL_POW2 of the
\* request included) and also when the PMM cannot satisfy any attempt.
\* ------------------------------------------------------------------------
C37_AllocMinReturns == (last.op = "min_loop") ~> (last.op = "min_done" \/ fault)

\* ------------------------------------------------------------------------
\* C38 -- rmm_freepages on a page-aligned address of the managed range whose
\* block is not allocated (the second free of a block, also while the buddy
\* of the block is still allocated) leaves the free lists, the use bitsets
\* and free_size as they are.
\* ------------------------------------------------------------------------
C38_SecondFreeChangesNothing ==
  [][last'.op = "free2" /\ last.op = "free" =>
       /\ freelists' = freelists
       /\ bitsets' = bitsets
       /\ free_size' = free_size]_vars

\* ------------------------------------------------------------------------
\* C39 -- with one page directory behind the cache, in every state reached
\* through loads, stores, misses that replace the entry of another page with
\* the same cache index, vm_cache_invalidate and vm_cache_invalidate_one, a
\* vm_cache_lookup that hits for an address returns the host address to which
\* the walk of the page directory maps that address, found without a page
\* being allocated.
\* ------------------------------------------------------------------------
C39_CacheHitIsDirectoryMapping ==
  vm_state = "run" =>
    \A a \in VMCacheAddrs, off \in {0, 1, 4}, A \in {1, 2, 4, 8} :
      vm_cache_lookup(cache, a + off, A) # 0 =>
        /\ VM_ADDR_MIN <= a + off /\ a + off <= VM_ADDR_MAX
        /\ \E t \in {vm_pagedir_translate(MM, hmem, pd_root, a + off)} :
             /\ ~t.panic /\ t.mm = MM /\ t.mem = hmem
             /\ vm_cache_lookup(cache, a + off, A) = t.haddr

\* a load of the page that shares the cache index of the lowest page has hit
\* the cache, and the lowest page is mapped as well: one of the two has
\* replaced the other in the cache
C39_Witness ==
  /\ vm_last.op = "load" /\ vm_last.hit
  /\ vm_last.vaddr = VM_ADDR_MIN + VM_CACHE_LEN * PAGE_SIZE + 4
  /\ VM_ADDR_MIN \in DOMAIN shadow
  /\ vm_cache_lookup(cache, VM_ADDR_MIN, 1) = 0

\* ------------------------------------------------------------------------
\* C40 -- in every state of the allocator kmem_avail(a) <= kmem_cap(a): the
\* bytes reported available, free sub-heap chunks plus what slabheap_avail
\* counts for the slab blocks taken from the sub-heap, never exceed the
\* capacity of the sub-heap.
\* ------------------------------------------------------------------------
C40_AvailAtMostCap == ka.fault = "" => kmem_avail(ka) <= kmem_cap(ka)

====
